---- MODULE Spec2Model ----
\* Authentication core of MyHealthGuide: the session-token codec (token.rs),
\* the revocation registry (token_blacklist.rs), the authentication middleware
\* (auth/mod.rs), the federated token path (auth0.rs) and the federated-login
\* flow with its session store (oidc.rs).
\*
\* Time is in seconds, as in the claims of a token (chrono timestamps) and in
\* the SystemTime values of the registry and of the session store.
EXTENDS Integers, FiniteSets, Sequences, TLC

VARIABLES
    now,             \* the wall clock read by SystemTime::now() / Utc::now()
    ticks,           \* number of clock steps taken (bounds the exploration)
    cfg,             \* the process environment (JWT_SECRET, AUTH0_*, BYPASS_AUTH, build kind)
    max_size,        \* TokenBlacklist.max_size
    revoked_tokens,  \* TokenBlacklist.revoked_tokens: id -> (expiration, revocation_time)
    minted,          \* the tokens generate_token has returned so far
    jwks_cache,      \* JwksCache.keys: issuer -> (key set, fetched_at)
    jw,              \* the JwksCache::get_jwks invocations, one record per task
    mw,              \* what auth_middleware did with the last request
    outstanding,     \* history: the tokens that were minted before a call of token::revoke_token for their subject
    last_op,         \* history: the last operation on the registry and its pre-state
    sessions,        \* InMemorySessionRepository.sessions: csrf_token -> OidcSession
    next_csrf,       \* the next fresh CSRF state (Uuid::new_v4 never repeats)
    created,         \* history: csrf_token -> creation time of its flow
    cb,              \* the handle_callback invocations, one record per task
    az,              \* what the authorization layer did with the latest request, if it was for a route behind it
    rt,              \* the provider discovery in progress: attempts made, delay, result
    hc,              \* what handle_callback made of the latest request, if it was a callback
    rf,              \* what the token-refresh endpoint did with the last request
    last_call,       \* history: the last call on the session repository and its pre-state
    pf,              \* a UserProfile and the display name profile_to_user_info gave it
    lk,              \* the holder of each store's mutex and the position of each task that takes one
    fv               \* the latest request to the middleware: its token, the answer, the extensions

vars == << now, ticks, cfg, max_size, revoked_tokens, minted, jwks_cache, jw, mw,
           outstanding, last_op, sessions, next_csrf, created, cb, az, rt, hc, rf,
           last_call, pf, lk, fv >>

registryVars == << max_size, revoked_tokens, outstanding, last_op >>
oidcVars == << sessions, next_csrf, created, cb >>
extVars == << az, rt, hc, rf, last_call, pf, lk, fv >>

-----------------------------------------------------------------------------
\* Bounds of the exploration.

NumSubjects == 3
NumUsers == 2
MaxTicks == 2
MaxTokens == 2
MaxBearerTokens == 1
NumBearers == 1
MaxDays == 1
MaxSizeBound == 2
NumFlows == 1
NumCallbacks == 2
NumCallers == 2
NumProviders == 2
MaxStores == 2

Subjects == 1..NumSubjects

\* the users of the application
Users == 1..NumUsers

\* the users whose credentials are presented to the middleware
Bearers == 1..NumBearers

\* The clock advances by an hour (the registry's sweep interval) or by a day.
TickSteps == {3600, 86400}

-----------------------------------------------------------------------------
\* Program constants.

AccessTokenExpirationMinutes == 15
RefreshTokenExpirationDays == 7
RevocationLifetimeSecs == 86400
DefaultMaxSize == 10000
Leeway == 60
JwksCacheHours == 24
SessionTimeoutSecs == 600
MaxRetries == 3

TokenKinds == {"Access", "Refresh"}

\* TokenType::expiration
expiration(kind) ==
    IF kind = "Access" THEN AccessTokenExpirationMinutes * 60
    ELSE RefreshTokenExpirationDays * 86400

JwtIssuer == "MyHealthGuide-api"

-----------------------------------------------------------------------------
\* The revocation registry (TokenBlacklist).

Min(a, b) == IF a <= b THEN a ELSE b

Restrict(f, S) == [k \in S |-> f[k]]

Insert(f, k, v) == [x \in (DOMAIN f) \cup {k} |-> IF x = k THEN v ELSE f[x]]

EmptyMap == [k \in {} |-> 0]

\* an entry is removed by the sweep when now.duration_since(expiration) is Ok,
\* that is when expiration <= now
EntryExpired(entry, t) == entry.expiration <= t

\* TokenBlacklist::is_revoked
is_revoked(tokens, token_id) == token_id \in DOMAIN tokens

\* a sweep that drops every entry revoked by now, expired or not
cleanup_expired_tokens_internal_ByRevocationTime(tokens, t) ==
    Restrict(tokens, {k \in DOMAIN tokens : tokens[k].revocation_time > t})

\* TokenBlacklist::cleanup_expired_tokens_internal: the map that is retained
cleanup_expired_tokens_internal(tokens, t) ==
    Restrict(tokens, {k \in DOMAIN tokens : ~EntryExpired(tokens[k], t)})

\* the sort is by descending revocation time: the newest entries go
remove_oldest_entries_NewestFirst(tokens, count) ==
    LET n == Min(count, Cardinality(DOMAIN tokens))
    IN  { Restrict(tokens, (DOMAIN tokens) \ R) :
            R \in { Q \in SUBSET (DOMAIN tokens) :
                      /\ Cardinality(Q) = n
                      /\ \A r \in Q : \A k \in (DOMAIN tokens) \ Q :
                            tokens[r].revocation_time >= tokens[k].revocation_time } }

\* TokenBlacklist::remove_oldest_entries: the entries are sorted by revocation
\* time and the first `count` are removed.  The order of entries with equal
\* revocation times follows the HashMap's iteration order, so every choice
\* among ties is possible: the result is a set of maps.
remove_oldest_entries(tokens, count) ==
    LET n == Min(count, Cardinality(DOMAIN tokens))
    IN  { Restrict(tokens, (DOMAIN tokens) \ R) :
            R \in { Q \in SUBSET (DOMAIN tokens) :
                      /\ Cardinality(Q) = n
                      /\ \A r \in Q : \A k \in (DOMAIN tokens) \ Q :
                            tokens[r].revocation_time <= tokens[k].revocation_time } }

\* the second capacity check of revoke_token is dropped: the oldest half goes
\* even when the purge of expired entries made room
revoke_token_AlwaysEvicts(tokens, cap, token_id, exp, t) ==
    LET entry == [expiration |-> exp, revocation_time |-> t]
        purged == cleanup_expired_tokens_internal(tokens, t)
        pruned == IF Cardinality(DOMAIN tokens) >= cap
                  THEN remove_oldest_entries(purged, cap \div 2)
                  ELSE {tokens}
    IN  { Insert(m, token_id, entry) : m \in pruned }

\* TokenBlacklist::revoke_token, under the registry's lock: the possible maps
\* after revoking token_id with natural expiry exp at time t
revoke_token(tokens, cap, token_id, exp, t) ==
    LET entry == [expiration |-> exp, revocation_time |-> t]
        purged == cleanup_expired_tokens_internal(tokens, t)
        pruned == IF Cardinality(DOMAIN tokens) >= cap
                  THEN IF Cardinality(DOMAIN purged) >= cap
                       THEN remove_oldest_entries(purged, cap \div 2)
                       ELSE {purged}
                  ELSE {tokens}
    IN  { Insert(m, token_id, entry) : m \in pruned }

-----------------------------------------------------------------------------
\* The process environment.  cfg!(debug_assertions) is a property of the build
\* and the variables are read-only after start-up.

Auth0Domain == "tenant.auth0.com"
Auth0Audience == "https://api.myhealthguide"

ProdConfig ==
    [ jwt_secret |-> TRUE, debug_assertions |-> FALSE, bypass_auth |-> FALSE,
      auth0_domain |-> Auth0Domain, auth0_audience |-> Auth0Audience ]

-----------------------------------------------------------------------------
\* The session-token codec (token.rs).

\* what generate_token signs: Header::default() carries no key id, the issuer
\* is JWT_ISSUER and the Claims have no audience
LocalToken(user_id, kind, t) ==
    [ sig |-> "local", kid |-> "none", sub |-> user_id, iss |-> JwtIssuer,
      aud |-> {}, iat |-> t, exp |-> t + expiration(kind), kind |-> kind ]

\* a credential that is not a JWT at all
Garbage ==
    [ sig |-> "garbage", kid |-> "none", sub |-> 0, iss |-> "", aud |-> {},
      iat |-> 0, exp |-> 0, kind |-> "Access" ]

\* a token signed with JWT_SECRET by a deployment whose JWT_ISSUER differs
MisissuedToken(user_id) ==
    [ LocalToken(user_id, "Access", 0) EXCEPT !.iss = "other-api" ]

\* the issuer mismatch is reported with the variant of the federated path
validate_token_IssuerVariant(token, tokens, t, config) ==
    IF ~config.jwt_secret THEN "ConfigError"
    ELSE IF token.sig = "garbage" THEN "InvalidToken"
    ELSE IF token.sig # "local" THEN "TokenValidation"
    ELSE IF token.exp < t - Leeway THEN "TokenExpired"
    ELSE IF token.iss # JwtIssuer THEN "InvalidIssuer"
    ELSE IF is_revoked(tokens, token.sub) THEN "TokenRevoked"
    ELSE "Ok"

\* validate_token: the secret is read first; decode checks the structure and
\* the HS256 signature, then the expiry (with the decoder's leeway), then the
\* issuer; the registry is consulted last
validate_token(token, tokens, t, config) ==
    IF ~config.jwt_secret THEN "ConfigError"
    ELSE IF token.sig = "garbage" THEN "InvalidToken"
    ELSE IF token.sig # "local" THEN "TokenValidation"
    ELSE IF token.exp < t - Leeway THEN "TokenExpired"
    ELSE IF token.iss # JwtIssuer THEN "TokenValidation"
    ELSE IF is_revoked(tokens, token.sub) THEN "TokenRevoked"
    ELSE "Ok"

\* token::revoke_token: the natural expiry it hands to the registry
revocation_expiry(t) == t + RevocationLifetimeSecs

-----------------------------------------------------------------------------
\* Operations on the token codec and on the process-wide registry.

\* the clock advances by one of the given steps
Advance(steps, bound) ==
    /\ ticks < bound
    /\ \E d \in steps : now' = now + d
    /\ ticks' = ticks + 1
    /\ UNCHANGED << cfg, extVars, minted, jwks_cache, jw, mw, registryVars, oidcVars >>

Tick == Advance(TickSteps, MaxTicks)

TickDay == Advance({86400}, MaxDays)

\* the clock around the expiry of an Access token and the decoder's leeway
TickCodec == Advance({1, Leeway, Leeway + 1, AccessTokenExpirationMinutes * 60}, MaxTicks)

\* generate_token(user_id, token_type)
Generate(user_id, kind, bound) ==
    /\ cfg.jwt_secret
    /\ Cardinality(minted) < bound
    /\ minted' = minted \cup {LocalToken(user_id, kind, now)}
    /\ UNCHANGED << now, ticks, cfg, extVars, jwks_cache, jw, mw, registryVars, oidcVars >>

GenerateToken(user_id, kind) == Generate(user_id, kind, MaxTokens)

\* token::revoke_token(user_id)
RevokeToken(user_id) ==
    /\ revoked_tokens' \in
          revoke_token(revoked_tokens, max_size, user_id, revocation_expiry(now), now)
    /\ outstanding' = outstanding \cup {t \in minted : t.sub = user_id}
    /\ last_op' = [ op |-> "revoke", id |-> user_id, pre |-> revoked_tokens, at |-> now, ret |-> 0 ]
    /\ UNCHANGED << now, ticks, cfg, extVars, max_size, minted, jwks_cache, jw, mw, oidcVars >>

\* TokenBlacklist::cleanup_expired_tokens, the body of the scheduled sweep; it
\* returns before_count - tokens.len()
CleanupExpiredTokens ==
    /\ revoked_tokens' = cleanup_expired_tokens_internal(revoked_tokens, now)
    /\ last_op' = [ op |-> "cleanup", id |-> 0, pre |-> revoked_tokens, at |-> now,
                    ret |-> Cardinality(DOMAIN revoked_tokens)
                              - Cardinality(DOMAIN revoked_tokens') ]
    /\ UNCHANGED << now, ticks, cfg, extVars, max_size, outstanding, minted, jwks_cache, jw, mw, oidcVars >>

BlacklistRevoke(token_id, off) ==
    /\ revoked_tokens' \in revoke_token(revoked_tokens, max_size, token_id, now + off, now)
    /\ last_op' = [ op |-> "revoke", id |-> token_id, pre |-> revoked_tokens, at |-> now, ret |-> 0 ]
    /\ UNCHANGED << now, ticks, cfg, extVars, max_size, outstanding, minted, jwks_cache, jw, mw, oidcVars >>

-----------------------------------------------------------------------------
\* The federated token path (auth0.rs).

Issuers == {"https://tenant.auth0.com/", "https://evil.example/"}

\* issuer.contains(&auth0_domain)
IssuerContains(iss, dom) ==
    \/ dom = ""
    \/ dom = Auth0Domain /\ iss = "https://tenant.auth0.com/"

\* the key set the provider publishes
ProviderKeys == {"k1"}

\* a token of the provider: its key id, its issuer and the API's audience
ProviderToken(user_id) ==
    [ sig |-> "foreign", kid |-> "k1", sub |-> user_id, iss |-> "https://tenant.auth0.com/",
      aud |-> {Auth0Audience}, iat |-> 0, exp |-> 43200, kind |-> "Access" ]

\* tokens that were not signed with JWT_SECRET: a token of the provider, or
\* one that departs from it in the key id, the issuer or the audience
ForeignTokens ==
    UNION { {ProviderToken(u)}
            \cup { [ProviderToken(u) EXCEPT !.kid = k] : k \in {"none", "k1", "k2"} }
            \cup { [ProviderToken(u) EXCEPT !.iss = i] : i \in Issuers }
            \cup { [ProviderToken(u) EXCEPT !.aud = {}] } : u \in Bearers }

\* what the provider's key-set endpoint answers: an error, or a key set
FetchOutcomes ==
    { [ok |-> FALSE, keys |-> {}], [ok |-> TRUE, keys |-> ProviderKeys] }

\* get_jwks, the match on the cached entry: none, one younger than
\* cache_expiration, or an older one
jwks_entry(cache, issuer, t) ==
    IF issuer \notin DOMAIN cache THEN "absent"
    ELSE IF t - cache[issuer].timestamp < JwksCacheHours * 3600 THEN "fresh"
    ELSE "stale"

\* a failed fetch evicts the entry it could not refresh
jwks_after_fetch_DropsOnFailure(cache, issuer, t, fetch) ==
    IF fetch.ok
    THEN Insert(cache, issuer, [keys |-> fetch.keys, timestamp |-> t])
    ELSE Restrict(cache, (DOMAIN cache) \ {issuer})

\* get_jwks, the cache after the answer of the key-set endpoint: an error
\* returns before the cache is locked again, a key set is inserted with the
\* time of the insertion
jwks_after_fetch(cache, issuer, t, fetch) ==
    IF fetch.ok
    THEN Insert(cache, issuer, [keys |-> fetch.keys, timestamp |-> t])
    ELSE cache

\* JwksCache::get_jwks run without interruption: a cached entry younger than
\* the TTL is returned; otherwise the key set is fetched, and stored only
\* when the fetch succeeds
get_jwks(cache, issuer, t, fetch) ==
    IF jwks_entry(cache, issuer, t) = "fresh"
    THEN [ ok |-> TRUE, keys |-> cache[issuer].keys, fetched |-> FALSE, cache |-> cache ]
    ELSE [ ok |-> fetch.ok, keys |-> fetch.keys, fetched |-> TRUE,
           cache |-> jwks_after_fetch(cache, issuer, t, fetch) ]

\* the tasks that call get_jwks concurrently
Callers == 1..NumCallers

\* get_jwks up to the request to the key-set endpoint: the cache is read under
\* its lock and the lock is released
GetJwksLookup(p, issuer) ==
    /\ jw[p].pc \in {"idle", "done"}
    /\ LET entry == jwks_entry(jwks_cache, issuer, now)
       IN  jw' = [ jw EXCEPT ![p] =
                     IF entry = "fresh"
                     THEN [ pc |-> "done", issuer |-> issuer, entry |-> entry,
                            result |-> "cached", keys |-> jwks_cache[issuer].keys,
                            fetched |-> FALSE ]
                     ELSE [ pc |-> "fetch", issuer |-> issuer, entry |-> entry,
                            result |-> "none", keys |-> {}, fetched |-> FALSE ] ]
    /\ UNCHANGED << now, ticks, cfg, extVars, minted, jwks_cache, mw, registryVars, oidcVars >>

\* get_jwks from the answer of the key-set endpoint to its return
GetJwksFetch(p) ==
    /\ jw[p].pc = "fetch"
    \* what the key-set endpoint can answer over time: an error, the key set,
    \* or the key set after the provider rotated its keys
    /\ \E fetch \in FetchOutcomes \cup { [ok |-> TRUE, keys |-> {"k2"}] } :
         /\ jwks_cache' = jwks_after_fetch(jwks_cache, jw[p].issuer, now, fetch)
         /\ jw' = [ jw EXCEPT ![p].pc = "done",
                              ![p].result = IF fetch.ok THEN "fetched" ELSE "error",
                              ![p].keys = fetch.keys,
                              ![p].fetched = TRUE ]
    /\ UNCHANGED << now, ticks, cfg, extVars, minted, mw, registryVars, oidcVars >>

\* the key set is requested before the token is looked at
validate_auth0_token_FetchesFirst(token, t, config, cache, fetch) ==
    LET jwks == get_jwks(cache, token.iss, t, fetch)
        early(r) == [ res |-> r, fetched |-> jwks.fetched, cache |-> jwks.cache ]
    IN  IF token.sig = "garbage" /\ token.kid = "none" THEN early("InvalidFormat")
        ELSE IF token.kid = "none" THEN early("MalformedToken")
        ELSE IF token.sig = "garbage" THEN early("MalformedToken")
        ELSE IF token.exp < t THEN early("TokenExpired")
        ELSE IF config.auth0_domain # "" /\ ~IssuerContains(token.iss, config.auth0_domain)
        THEN early("InvalidIssuer")
        ELSE IF config.auth0_audience # "" /\ config.auth0_audience \notin token.aud
        THEN early("InvalidAudience")
        ELSE IF ~jwks.ok THEN early("MissingJWK")
        ELSE IF token.kid \notin jwks.keys THEN early("MissingJWK")
        ELSE early("Ok")

\* validate_auth0_token: header, key id, claims, expiry, issuer, audience,
\* then the key set; the signature is not verified and the revocation
\* registry is not read
validate_auth0_token(token, t, config, cache, fetch) ==
    LET early(r) == [ res |-> r, fetched |-> FALSE, cache |-> cache ]
        jwks == get_jwks(cache, token.iss, t, fetch)
    IN  IF token.sig = "garbage" /\ token.kid = "none" THEN early("InvalidFormat")
        ELSE IF token.kid = "none" THEN early("MalformedToken")
        ELSE IF token.sig = "garbage" THEN early("MalformedToken")
        ELSE IF token.exp < t THEN early("TokenExpired")
        ELSE IF config.auth0_domain # "" /\ ~IssuerContains(token.iss, config.auth0_domain)
        THEN early("InvalidIssuer")
        ELSE IF config.auth0_audience # "" /\ config.auth0_audience \notin token.aud
        THEN early("InvalidAudience")
        ELSE IF ~jwks.ok
        THEN [ res |-> "MissingJWK", fetched |-> jwks.fetched, cache |-> jwks.cache ]
        ELSE IF token.kid \notin jwks.keys
        THEN [ res |-> "MissingJWK", fetched |-> jwks.fetched, cache |-> jwks.cache ]
        ELSE [ res |-> "Ok", fetched |-> jwks.fetched, cache |-> jwks.cache ]

-----------------------------------------------------------------------------
\* The authentication middleware (auth/mod.rs).

HeaderKinds == {"missing", "not_bearer", "bearer"}

NoUser == 0

Outcome(bypass, local, auth0, fetched, status, next_run, user_id, source, revoked) ==
    [ bypass |-> bypass, local |-> local, auth0 |-> auth0, fetched |-> fetched,
      status |-> status, next_run |-> next_run, user_id |-> user_id,
      source |-> source, revoked |-> revoked, cred |-> "none" ]

\* the arm for TokenRevoked is missing: a revoked local token falls through
\* to the federated path like any other error
auth_middleware_RevokedFallsThrough(hdr, token, tokens, t, config, cache, fetch) ==
    LET local == validate_token(token, tokens, t, config)
        a0 == validate_auth0_token(token, t, config, cache, fetch)
        named == token.sig # "garbage" /\ is_revoked(tokens, token.sub)
    IN  IF config.debug_assertions /\ config.bypass_auth
        THEN [ out |-> Outcome(TRUE, "none", "none", FALSE, 200, TRUE, NoUser, "none", FALSE),
               cache |-> cache ]
        ELSE IF hdr # "bearer"
        THEN [ out |-> Outcome(FALSE, "none", "none", FALSE, 401, FALSE, NoUser, "none", FALSE),
               cache |-> cache ]
        ELSE IF local = "Ok"
        THEN [ out |-> Outcome(FALSE, local, "none", FALSE, 200, TRUE, token.sub, "jwt", named),
               cache |-> cache ]
        ELSE IF local = "TokenExpired"
        THEN [ out |-> Outcome(FALSE, local, "none", FALSE, 401, FALSE, NoUser, "none", named),
               cache |-> cache ]
        ELSE IF a0.res = "Ok"
        THEN [ out |-> Outcome(FALSE, local, a0.res, a0.fetched, 200, TRUE, token.sub, "auth0", named),
               cache |-> a0.cache ]
        ELSE [ out |-> Outcome(FALSE, local, a0.res, a0.fetched, 401, FALSE, NoUser, "none", named),
               cache |-> a0.cache ]

\* the bypass looks at BYPASS_AUTH alone, whatever the build
auth_middleware_BypassInAnyBuild(hdr, token, tokens, t, config, cache, fetch) ==
    LET local == validate_token(token, tokens, t, config)
        a0 == validate_auth0_token(token, t, config, cache, fetch)
        named == token.sig # "garbage" /\ is_revoked(tokens, token.sub)
    IN  IF config.bypass_auth
        THEN [ out |-> Outcome(TRUE, "none", "none", FALSE, 200, TRUE, NoUser, "none", FALSE),
               cache |-> cache ]
        ELSE IF hdr # "bearer"
        THEN [ out |-> Outcome(FALSE, "none", "none", FALSE, 401, FALSE, NoUser, "none", FALSE),
               cache |-> cache ]
        ELSE IF local = "Ok"
        THEN [ out |-> Outcome(FALSE, local, "none", FALSE, 200, TRUE, token.sub, "jwt", named),
               cache |-> cache ]
        ELSE IF local \in {"TokenExpired", "TokenRevoked"}
        THEN [ out |-> Outcome(FALSE, local, "none", FALSE, 401, FALSE, NoUser, "none", named),
               cache |-> cache ]
        ELSE IF a0.res = "Ok"
        THEN [ out |-> Outcome(FALSE, local, a0.res, a0.fetched, 200, TRUE, token.sub, "auth0", named),
               cache |-> a0.cache ]
        ELSE [ out |-> Outcome(FALSE, local, a0.res, a0.fetched, 401, FALSE, NoUser, "none", named),
               cache |-> a0.cache ]

\* auth_middleware: the development bypass, the Authorization header, local
\* validation, and the federated path for every local error other than
\* TokenExpired and TokenRevoked.  `revoked` records whether the registry held
\* an entry for the token's subject when the request was handled.
auth_middleware(hdr, token, tokens, t, config, cache, fetch) ==
    LET local == validate_token(token, tokens, t, config)
        a0 == validate_auth0_token(token, t, config, cache, fetch)
        named == token.sig # "garbage" /\ is_revoked(tokens, token.sub)
    IN  IF config.debug_assertions /\ config.bypass_auth
        THEN [ out |-> Outcome(TRUE, "none", "none", FALSE, 200, TRUE, NoUser, "none", FALSE),
               cache |-> cache ]
        ELSE IF hdr # "bearer"
        THEN [ out |-> Outcome(FALSE, "none", "none", FALSE, 401, FALSE, NoUser, "none", FALSE),
               cache |-> cache ]
        ELSE IF local = "Ok"
        THEN [ out |-> Outcome(FALSE, local, "none", FALSE, 200, TRUE, token.sub, "jwt", named),
               cache |-> cache ]
        ELSE IF local \in {"TokenExpired", "TokenRevoked"}
        THEN [ out |-> Outcome(FALSE, local, "none", FALSE, 401, FALSE, NoUser, "none", named),
               cache |-> cache ]
        ELSE IF a0.res = "Ok"
        THEN [ out |-> Outcome(FALSE, local, a0.res, a0.fetched, 200, TRUE, token.sub, "auth0", named),
               cache |-> a0.cache ]
        ELSE [ out |-> Outcome(FALSE, local, a0.res, a0.fetched, 401, FALSE, NoUser, "none", named),
               cache |-> a0.cache ]

\* the credentials a client can present: no Authorization header, a header
\* that is not a Bearer one, or a Bearer token; among the tokens one whose
\* first segment is a JWT header with a key id and whose remainder is not a
\* JWT payload
Credentials ==
    { [hdr |-> h, token |-> Garbage] : h \in HeaderKinds \ {"bearer"} }
    \cup { [hdr |-> "bearer", token |-> t] :
              t \in minted \cup ForeignTokens
                    \cup { Garbage, [ Garbage EXCEPT !.kid = "k1" ] }
                    \cup { MisissuedToken(u) : u \in Bearers } }

\* what the request carried: the kind of header, or the kind of bearer token
presented(c) == IF c.hdr = "bearer" THEN c.token.sig ELSE c.hdr

\* the answers the key-set endpoint can give to the request carrying c: the
\* endpoint is contacted only when the middleware gets as far as a fetch
FetchesFor(c) ==
    LET failing == [ok |-> FALSE, keys |-> {}]
        r == auth_middleware(c.hdr, c.token, revoked_tokens, now, cfg, jwks_cache, failing)
    IN  IF r.out.fetched THEN FetchOutcomes ELSE {failing}

\* a request to a route behind auth_middleware other than /auth/logout
ProtectedRequest ==
    \E c \in Credentials : \E fetch \in FetchesFor(c) :
        LET r == auth_middleware(c.hdr, c.token, revoked_tokens, now, cfg, jwks_cache, fetch)
        IN  /\ mw' = [r.out EXCEPT !.cred = presented(c)]
            /\ jwks_cache' = r.cache
            /\ UNCHANGED << now, ticks, cfg, extVars, jw, minted, registryVars, oidcVars >>

\* POST /auth/logout: behind auth_middleware; the handler takes the UserInfo
\* the middleware attached and revokes its user_id.  Without a UserInfo (the
\* bypass) the extractor rejects the request and the handler does not run.
LogoutRequest ==
    \E c \in Credentials : \E fetch \in FetchesFor(c) :
        LET r == auth_middleware(c.hdr, c.token, revoked_tokens, now, cfg, jwks_cache, fetch)
        IN  /\ jwks_cache' = r.cache
            /\ IF r.out.next_run /\ r.out.user_id # NoUser
               THEN /\ mw' = [r.out EXCEPT !.cred = presented(c)]
                    /\ revoked_tokens' \in
                          revoke_token(revoked_tokens, max_size, r.out.user_id,
                                       revocation_expiry(now), now)
               ELSE /\ mw' = IF r.out.next_run
                          THEN [r.out EXCEPT !.status = 500, !.cred = presented(c)]
                          ELSE [r.out EXCEPT !.cred = presented(c)]
                    /\ UNCHANGED revoked_tokens
            /\ UNCHANGED << now, ticks, cfg, extVars, jw, max_size, outstanding, last_op, minted, oidcVars >>

-----------------------------------------------------------------------------
\* Roles and the authorization layer (auth0.rs, authorize.rs).

\* the claims of a bearer token that speak of roles: the `roles` claim, the
\* custom claims (key -> JSON value), the `permissions` claim and the words
\* of the `scope` claim.  An absent `roles` or `permissions` claim contributes
\* what an empty one does.
CustomKeys == {"https://myapp.com/roles", "https://myapp.com/groups"}

\* key.ends_with("/roles") || key.contains("roles")
KeyNamesRoles(key) == key = "https://myapp.com/roles"

\* scope.contains("role:") || scope.starts_with("role_")
ScopeNamesRole(scope) == scope = "role:auditor"

NoRoleClaims ==
    [ roles |-> {}, custom_claims |-> EmptyMap, permissions |-> {}, scope |-> {"openid"} ]

RoleClaims ==
    { [ roles |-> r, custom_claims |-> c, permissions |-> p, scope |-> s ] :
        r \in {{}, {"admin"}, {"admin", "user"}},
        c \in {EmptyMap} \cup { [k \in {key} |-> [array |-> TRUE, items |-> {"editor"}]] :
                                   key \in CustomKeys }
                         \cup { [k \in {"https://myapp.com/roles"} |->
                                     [array |-> FALSE, items |-> {}]] },
        p \in {{}, {"read:reports"}},
        s \in {{"openid"}, {"openid", "role:auditor"}} }

\* the role claims in the payload of a bearer token: the Claims of a local
\* token have no field for them
ClaimsFor(c) == IF c.token.sig = "foreign" THEN RoleClaims ELSE {NoRoleClaims}

\* the default role is added only when the `roles` claim is absent
extract_roles_from_claims_DefaultOnlyWhenAbsent(claims) ==
    LET cc == claims.custom_claims
        namespaced == UNION { cc[k].items : k \in { k \in DOMAIN cc :
                                                     KeyNamesRoles(k) /\ cc[k].array } }
        scoped == { s \in claims.scope : ScopeNamesRole(s) }
        roles == claims.roles \cup namespaced \cup claims.permissions \cup scoped
    IN  IF claims.roles = {} THEN roles \cup {"user"} ELSE roles

\* extract_roles_from_claims: the `roles` claim, the arrays under custom
\* claims whose key names roles, the permissions, the role-like scopes, and
\* "user" when it is not among them
extract_roles_from_claims(claims) ==
    LET cc == claims.custom_claims
        namespaced == UNION { cc[k].items : k \in { k \in DOMAIN cc :
                                                     KeyNamesRoles(k) /\ cc[k].array } }
        scoped == { s \in claims.scope : ScopeNamesRole(s) }
        roles == claims.roles \cup namespaced \cup claims.permissions \cup scoped
    IN  IF "user" \in roles THEN roles ELSE roles \cup {"user"}

NoUserInfo == [ present |-> FALSE, user_id |-> NoUser, roles |-> {}, auth_source |-> "none" ]

\* the UserInfo auth_middleware leaves in the request's extensions: none
\* under the bypass, the local one with the single role "user", or the one
\* validate_auth0_token built from the token's claims
request_extensions(out, claims) ==
    IF ~out.next_run \/ out.bypass THEN NoUserInfo
    ELSE IF out.source = "jwt"
    THEN [ present |-> TRUE, user_id |-> out.user_id, roles |-> {"user"},
           auth_source |-> "jwt" ]
    ELSE [ present |-> TRUE, user_id |-> out.user_id,
           roles |-> extract_roles_from_claims(claims), auth_source |-> "auth0" ]

\* a request without a UserInfo is answered like one whose roles do not match
require_roles_MissingIsForbidden(user_info, required_roles) ==
    IF user_info.present /\ \E role \in required_roles : role \in user_info.roles
    THEN [ status |-> 200, next_run |-> TRUE, error |-> "none", required_roles |-> {} ]
    ELSE [ status |-> 403, next_run |-> FALSE, error |-> "forbidden",
           required_roles |-> required_roles ]

\* every required role must be held
require_roles_AllRequired(user_info, required_roles) ==
    IF user_info.present
    THEN IF required_roles \subseteq user_info.roles
         THEN [ status |-> 200, next_run |-> TRUE, error |-> "none", required_roles |-> {} ]
         ELSE [ status |-> 403, next_run |-> FALSE, error |-> "forbidden",
                required_roles |-> required_roles ]
    ELSE [ status |-> 500, next_run |-> FALSE, error |-> "internal_error",
           required_roles |-> {} ]

\* require_roles: the next handler (which answers 200) when the UserInfo
\* holds any of the required roles, 403 naming the required roles when it
\* holds none, 500 when the request carries no UserInfo
require_roles(user_info, required_roles) ==
    IF user_info.present
    THEN IF \E role \in required_roles : role \in user_info.roles
         THEN [ status |-> 200, next_run |-> TRUE, error |-> "none", required_roles |-> {} ]
         ELSE [ status |-> 403, next_run |-> FALSE, error |-> "forbidden",
                required_roles |-> required_roles ]
    ELSE [ status |-> 500, next_run |-> FALSE, error |-> "internal_error",
           required_roles |-> {} ]

NoAuthorization ==
    [ reached |-> FALSE, user_info |-> NoUserInfo, claims |-> NoRoleClaims,
      required |-> {}, status |-> 0, next_run |-> FALSE, error |-> "none",
      required_roles |-> {} ]

-----------------------------------------------------------------------------
\* The federated-login flow and its session store (oidc.rs).

Callbacks == 1..NumCallbacks

\* the CSRF states a callback can carry: 0 was never issued
States == 0..NumFlows

NoAge == -1

IdleCallback ==
    [ pc |-> "idle", state |-> 0, result |-> "none", present |-> FALSE,
      got |-> FALSE, age |-> NoAge, after_fail |-> FALSE, status |-> 0 ]

\* a lookup that hands out a stored session whatever the CSRF state
get_session_AnyStored(store, csrf_token) ==
    IF DOMAIN store = {}
    THEN [ok |-> FALSE, session |-> [id |-> 0, csrf_token |-> 0, pkce_verifier |-> 0,
                                     created_at |-> 0, nonce |-> 0]]
    ELSE [ok |-> TRUE, session |-> store[CHOOSE k \in DOMAIN store : TRUE]]

\* InMemorySessionRepository::get_session
get_session(store, csrf_token) ==
    IF csrf_token \in DOMAIN store
    THEN [ok |-> TRUE, session |-> store[csrf_token]]
    ELSE [ok |-> FALSE, session |-> [id |-> 0, csrf_token |-> 0, pkce_verifier |-> 0,
                                     created_at |-> 0, nonce |-> 0]]

\* InMemorySessionRepository::delete_session
delete_session(store, csrf_token) == Restrict(store, (DOMAIN store) \ {csrf_token})

\* a store that keeps the session already held under the CSRF state
store_session_KeepsFirst(store, session) ==
    IF session.csrf_token \in DOMAIN store THEN store
    ELSE Insert(store, session.csrf_token, session)

\* InMemorySessionRepository::store_session
store_session(store, session) == Insert(store, session.csrf_token, session)

\* a sweep with >= for >: a session goes at exactly the timeout
cleanup_expired_sessions_AtTimeout(store, timeout, t) ==
    Restrict(store, {k \in DOMAIN store : t - store[k].created_at < timeout})

\* InMemorySessionRepository::cleanup_expired_sessions: a session goes when its
\* age exceeds the timeout, or when the clock reads earlier than created_at
cleanup_expired_sessions(store, timeout, t) ==
    Restrict(store, {k \in DOMAIN store :
                        ~(t < store[k].created_at \/ t - store[k].created_at > timeout)})

\* the expiry test has >= for >: a session is refused at exactly the timeout
session_expired_AtTimeout(created_at, t, timeout) == t - created_at >= timeout

\* handle_callback: now.duration_since(session.created_at) > session_timeout
session_expired(created_at, t, timeout) == t - created_at > timeout

\* a stored session is handed to the callback whatever state it carries
callback_lookup_AnySession(store, csrf_token, t) ==
    IF DOMAIN store = {} THEN "SessionNotFound"
    ELSE "proceed"

\* handle_callback before the code exchange: get_session by the CSRF state,
\* then the age of the session against session_timeout
callback_lookup(store, csrf_token, t) ==
    LET found == get_session(store, csrf_token)
    IN  IF ~found.ok THEN "SessionNotFound"
        ELSE IF t < found.session.created_at THEN "UserInfoError"
        ELSE IF session_expired(found.session.created_at, t, SessionTimeoutSecs)
        THEN "SessionNotFound"
        ELSE "proceed"

\* callback_handler: the status of the response for the result of
\* handle_callback; a successful login mints the two session tokens
callback_handler(result, config) ==
    IF result = "Ok"
    THEN IF config.jwt_secret THEN 200 ELSE 500
    ELSE 400

\* start_auth_flow: fresh CSRF state, PKCE verifier and nonce; the session is
\* stored under the CSRF state
StartAuthFlow ==
    /\ next_csrf <= NumFlows
    /\ sessions' = store_session(sessions,
                      [ id |-> next_csrf, csrf_token |-> next_csrf,
                        pkce_verifier |-> next_csrf, created_at |-> now,
                        nonce |-> next_csrf ])
    /\ created' = Insert(created, next_csrf, now)
    /\ next_csrf' = next_csrf + 1
    /\ UNCHANGED << now, ticks, cfg, extVars, minted, jwks_cache, jw, mw, registryVars, cb >>

\* handle_callback up to the code exchange: get_session and the expiry check.
\* The record stays in the store on every path. Invocations are numbered in
\* their order of arrival.
CallbackLookup(p, state) ==
    /\ cb[p].pc = "idle"
    /\ \A q \in Callbacks : q < p => cb[q].pc # "idle"
    /\ LET found == get_session(sessions, state)
           flow_age == IF state \in DOMAIN created THEN now - created[state] ELSE NoAge
           failed_before ==
               \E q \in Callbacks :
                   /\ cb[q].state = state
                   /\ cb[q].got
                   /\ cb[q].result \in {"TokenExchangeError", "TokenVerificationError"}
           outcome == callback_lookup(sessions, state, now)
           seen == [ cb[p] EXCEPT !.state = state, !.present = found.ok,
                                  !.age = flow_age, !.after_fail = failed_before ]
       IN  cb' = [ cb EXCEPT ![p] =
                     IF outcome = "proceed"
                     THEN [ seen EXCEPT !.pc = "exchange", !.got = TRUE ]
                     ELSE [ seen EXCEPT !.pc = "done", !.result = outcome,
                                        !.status = callback_handler(outcome, cfg) ] ]
    /\ UNCHANGED << now, ticks, cfg, extVars, minted, jwks_cache, jw, mw, registryVars,
                    sessions, next_csrf, created >>

\* the outcome of handle_callback between the exchange and the deletion
exchange_outcome(r) ==
    IF ~r.ok THEN "TokenExchangeError"
    ELSE IF ~r.id_token THEN "TokenVerificationError"
    ELSE IF ~r.verified THEN "TokenVerificationError"
    ELSE IF r.azp = "other" THEN "TokenVerificationError"
    ELSE IF r.expired THEN "TokenVerificationError"
    ELSE "Ok"

\* handle_callback from the answer of the token endpoint to delete_session:
\* the session is deleted only when the ID token passed every check
CallbackExchange(p) ==
    /\ cb[p].pc = "exchange"
    \* what the token endpoint answers and what the ID token in it looks like
    /\ \E r \in { x \in [ ok : BOOLEAN, id_token : BOOLEAN, verified : BOOLEAN,
                           azp : {"none", "client", "other"}, expired : BOOLEAN ] :
                     /\ ~x.ok => (~x.id_token /\ ~x.verified /\ x.azp = "none" /\ ~x.expired)
                     /\ ~x.id_token => (~x.verified /\ x.azp = "none" /\ ~x.expired)
                     /\ ~x.verified => (x.azp = "none" /\ ~x.expired) } :
         IF exchange_outcome(r) = "Ok"
         THEN /\ sessions' = delete_session(sessions, cb[p].state)
              /\ cb' = [ cb EXCEPT ![p].pc = "userinfo" ]
         ELSE /\ sessions' = sessions
              /\ cb' = [ cb EXCEPT ![p].pc = "done", ![p].result = exchange_outcome(r),
                                   ![p].status = callback_handler(exchange_outcome(r), cfg) ]
    /\ UNCHANGED << now, ticks, cfg, extVars, minted, jwks_cache, jw, mw, registryVars,
                    next_csrf, created >>

\* handle_callback after delete_session: the userinfo request may fail, the
\* callback returns a UserInfo either way
CallbackUserInfo(p) ==
    /\ cb[p].pc = "userinfo"
    /\ \E profile_ok \in BOOLEAN :
         cb' = [ cb EXCEPT ![p].pc = "done", ![p].result = "Ok",
                           ![p].status = callback_handler("Ok", cfg) ]
    /\ UNCHANGED << now, ticks, cfg, extVars, minted, jwks_cache, jw, mw, registryVars,
                    sessions, next_csrf, created >>

\* callback_handler has answered and its task ends
CallbackReturn(p) ==
    /\ cb[p].pc = "done"
    /\ cb' = [ cb EXCEPT ![p] = IdleCallback ]
    /\ UNCHANGED << now, ticks, cfg, extVars, minted, jwks_cache, jw, mw, registryVars,
                    sessions, next_csrf, created >>

\* the session sweep, called with the configured session timeout
SweepSessions ==
    /\ sessions' = cleanup_expired_sessions(sessions, SessionTimeoutSecs, now)
    /\ UNCHANGED << now, ticks, cfg, extVars, minted, jwks_cache, jw, mw, registryVars,
                    next_csrf, created, cb >>

\* the clock around the session timeout: by the timeout exactly, or by a second
TickSession == Advance({1, 600}, MaxTicks)

-----------------------------------------------------------------------------
\* Provider discovery (oidc.rs).

\* the providers OidcProviders::from_env builds a client for, one after the other
Providers == 1..NumProviders

\* the loop runs once more after max_retries failures
may_retry_Inclusive(attempt, max_retries) == attempt <= max_retries

\* while attempt < max_retries
may_retry(attempt, max_retries) == attempt < max_retries

\* Duration::from_millis(2u64.pow(attempt) * 100)
retry_delay(attempt) == (2 ^ attempt) * 100

\* OidcClient::new enters discover_provider_with_retry: an issuer URL that
\* does not parse ends it before any request
DiscoveryStart(p, url_ok) ==
    /\ rt[p].pc = "idle"
    /\ \A q \in Providers : q < p => rt[q].pc = "done"
    /\ rt' = [ rt EXCEPT ![p].pc = IF url_ok THEN "loop" ELSE "done",
                         ![p].result = IF url_ok THEN "none" ELSE "DiscoveryError" ]
    /\ UNCHANGED << now, ticks, cfg, az, hc, rf, last_call, pf, lk, fv, minted, jwks_cache, jw, mw,
                    registryVars, oidcVars >>

\* one turn of the loop: discover_async, and on failure the count, the delay
\* and the sleep
DiscoveryAttempt(p) ==
    /\ rt[p].pc = "loop"
    /\ may_retry(rt[p].attempt, MaxRetries)
    /\ \E ok \in BOOLEAN :
         rt' = IF ok
               THEN [ rt EXCEPT ![p].pc = "done", ![p].calls = @ + 1, ![p].result = "Ok" ]
               ELSE [ rt EXCEPT ![p].pc = "sleep", ![p].calls = @ + 1,
                                ![p].attempt = @ + 1,
                                ![p].delays = Append(@, retry_delay(rt[p].attempt + 1)) ]
    /\ UNCHANGED << now, ticks, cfg, az, hc, rf, last_call, pf, lk, fv, minted, jwks_cache, jw, mw,
                    registryVars, oidcVars >>

\* tokio::time::sleep(retry_delay) returns
DiscoverySleep(p) ==
    /\ rt[p].pc = "sleep"
    /\ rt' = [ rt EXCEPT ![p].pc = "loop" ]
    /\ UNCHANGED << now, ticks, cfg, az, hc, rf, last_call, pf, lk, fv, minted, jwks_cache, jw, mw,
                    registryVars, oidcVars >>

\* the loop is left without a success
DiscoveryGiveUp(p) ==
    /\ rt[p].pc = "loop"
    /\ ~may_retry(rt[p].attempt, MaxRetries)
    /\ rt' = [ rt EXCEPT ![p].pc = "done", ![p].result = "DiscoveryError" ]
    /\ UNCHANGED << now, ticks, cfg, az, hc, rf, last_call, pf, lk, fv, minted, jwks_cache, jw, mw,
                    registryVars, oidcVars >>

-----------------------------------------------------------------------------
\* The token response of the provider (oidc.rs).

\* OidcConfig: the issuer and the client id the client was built with
OidcIssuer == "https://accounts.google.com"
OidcClientId == "client"

NoIdToken ==
    [ sig_ok |-> FALSE, iss |-> "", aud |-> {}, azp |-> "none", exp |-> 0,
      nonce |-> 0, sub |-> NoUser ]

\* the ID tokens a token endpoint can return for a flow whose session holds
\* `nonce`, at time t: every combination of a right or wrong issuer,
\* audience, authorized party, expiry and nonce, and one with a bad signature
IdTokens(nonce, t) ==
    { [ sig_ok |-> TRUE, iss |-> i, aud |-> a, azp |-> z, exp |-> e, nonce |-> n, sub |-> 1 ] :
        i \in {OidcIssuer, "https://evil.example.com"},
        a \in {{OidcClientId}, {"other"}},
        z \in {"none", OidcClientId, "other"},
        e \in {t - 1, t + 3600},
        n \in {nonce, 0} }
    \cup { [ sig_ok |-> FALSE, iss |-> OidcIssuer, aud |-> {OidcClientId}, azp |-> "none",
             exp |-> t + 3600, nonce |-> nonce, sub |-> 1 ] }

\* what the token endpoint answers: an error, a response without an ID
\* token, or a response with one
TokenResponses(nonce, t) ==
    { [ ok |-> FALSE, has_id_token |-> FALSE, id_token |-> NoIdToken ],
      [ ok |-> TRUE, has_id_token |-> FALSE, id_token |-> NoIdToken ] }
    \cup { [ ok |-> TRUE, has_id_token |-> TRUE, id_token |-> k ] : k \in IdTokens(nonce, t) }

\* the nonce of the ID token is not compared with the session's
id_token_claims_AnyNonce(id_token, nonce, t) ==
    /\ id_token.sig_ok
    /\ id_token.iss = OidcIssuer
    /\ OidcClientId \in id_token.aud
    /\ id_token.aud \subseteq {OidcClientId}
    /\ t < id_token.exp

\* id_token.claims(&self.client.id_token_verifier(), &nonce): the verifier
\* of the openidconnect crate accepts a token signed by the provider whose
\* issuer is the configured one, whose audience is the client id, which has
\* not expired and whose nonce is the one given, here the session's
id_token_claims(id_token, nonce, t) ==
    /\ id_token.sig_ok
    /\ id_token.iss = OidcIssuer
    /\ OidcClientId \in id_token.aud
    /\ id_token.aud \subseteq {OidcClientId}
    /\ t < id_token.exp
    /\ id_token.nonce = nonce

\* what the token response amounts to for handle_callback
exchange_summary(response, nonce, t) ==
    LET verified == response.has_id_token /\ id_token_claims(response.id_token, nonce, t)
    IN  [ ok |-> response.ok, id_token |-> response.has_id_token, verified |-> verified,
          azp |-> IF ~verified THEN "none"
                  ELSE IF response.id_token.azp = OidcClientId THEN "client"
                  ELSE response.id_token.azp,
          expired |-> verified /\ response.id_token.exp < t ]

\* the userinfo endpoint is asked only when the ID token passed every check;
\* it answers with an error or with a profile, and a profile without "sub"
\* gives the empty user id
ProfilesFor(response, nonce, t) ==
    IF exchange_outcome(exchange_summary(response, nonce, t)) = "Ok"
    THEN { [ ok |-> FALSE, sub |-> NoUser ] }
         \cup { [ ok |-> TRUE, sub |-> s ] : s \in {NoUser, 1, 2} }
    ELSE { [ ok |-> FALSE, sub |-> NoUser ] }

\* profile_to_user_info
profile_to_user_info(profile) ==
    [ present |-> TRUE, user_id |-> profile.sub, roles |-> {"user"}, auth_source |-> "oidc" ]

\* a failed userinfo request fails the callback
callback_user_info_ProfileRequired(profile, id_token) ==
    IF profile.ok
    THEN [ result |-> "Ok", user_info |-> profile_to_user_info(profile) ]
    ELSE [ result |-> "UserInfoError", user_info |-> NoUserInfo ]

\* handle_callback after delete_session: the UserInfo of the profile, or the
\* one built from the claims of the ID token when fetch_user_profile failed
callback_user_info(profile, id_token) ==
    IF profile.ok
    THEN [ result |-> "Ok", user_info |-> profile_to_user_info(profile) ]
    ELSE [ result |-> "Ok",
           user_info |-> [ present |-> TRUE, user_id |-> id_token.sub,
                           roles |-> {"user"}, auth_source |-> "oidc" ] ]

NoCallbackResult ==
    [ state |-> 0, lookup |-> "none", nonce |-> 0, at |-> 0,
      response |-> [ ok |-> FALSE, has_id_token |-> FALSE, id_token |-> NoIdToken ],
      profile_ok |-> FALSE, result |-> "none", user_info |-> NoUserInfo,
      status |-> 0, tokens |-> FALSE ]

\* GET /auth/oidc/callback served from its arrival to its response:
\* callback_handler calls handle_callback, and on Ok generates the two
\* session tokens
HandleCallback(state) ==
    LET lookup == callback_lookup(sessions, state, now)
        session == get_session(sessions, state).session
    IN  IF lookup # "proceed"
        THEN /\ hc' = [ NoCallbackResult EXCEPT !.state = state, !.lookup = lookup,
                                               !.at = now, !.result = lookup,
                                               !.status = callback_handler(lookup, cfg) ]
             /\ az' = NoAuthorization
             /\ UNCHANGED << now, ticks, cfg, rt, rf, last_call, pf, lk, fv, minted, jwks_cache, jw, mw,
                             registryVars, oidcVars >>
        ELSE \E response \in TokenResponses(session.nonce, now) :
             \E profile \in ProfilesFor(response, session.nonce, now) :
               LET outcome == exchange_outcome(exchange_summary(response, session.nonce, now))
                   made == callback_user_info(profile, response.id_token)
                   seen == [ NoCallbackResult EXCEPT !.state = state, !.lookup = lookup,
                                                    !.at = now, !.nonce = session.nonce,
                                                    !.response = response ]
               IN  IF outcome = "Ok"
                   THEN /\ sessions' = delete_session(sessions, state)
                        /\ hc' = [ seen EXCEPT
                                     !.profile_ok = profile.ok,
                                     !.result = made.result,
                                     !.user_info = made.user_info,
                                     !.status = callback_handler(made.result, cfg),
                                     !.tokens = (callback_handler(made.result, cfg) = 200) ]
                        /\ az' = NoAuthorization
                        /\ UNCHANGED << now, ticks, cfg, rt, rf, last_call, pf, lk, fv, minted, jwks_cache, jw,
                                        mw, registryVars, next_csrf, created, cb >>
                   ELSE /\ hc' = [ seen EXCEPT !.result = outcome,
                                               !.status = callback_handler(outcome, cfg) ]
                        /\ az' = NoAuthorization
                        /\ UNCHANGED << now, ticks, cfg, rt, rf, last_call, pf, lk, fv, minted, jwks_cache, jw,
                                        mw, registryVars, oidcVars >>

-----------------------------------------------------------------------------
\* The admin routes (api/routes.rs).

\* a request to a route behind auth_middleware and then require_roles: the
\* authorization layer is reached only when auth_middleware ran its next.
\* The credentials presented: no header, a token that is none, the Access
\* token generate_token has just returned to a user, or a token of the provider
AuthorizedRequest(required) ==
    \E c \in { [hdr |-> "missing", token |-> Garbage], [hdr |-> "bearer", token |-> Garbage] }
             \cup { [hdr |-> "bearer", token |-> t] :
                      t \in { LocalToken(u, "Access", now) : u \in Bearers }
                            \cup { ProviderToken(u) : u \in Bearers } } :
      \E claims \in ClaimsFor(c) : \E fetch \in FetchesFor(c) :
        LET r == auth_middleware(c.hdr, c.token, revoked_tokens, now, cfg, jwks_cache, fetch)
            user_info == request_extensions(r.out, claims)
            z == require_roles(user_info, required)
        IN  /\ jwks_cache' = r.cache
            /\ mw' = IF r.out.next_run
                     THEN [r.out EXCEPT !.cred = presented(c), !.status = z.status]
                     ELSE [r.out EXCEPT !.cred = presented(c)]
            /\ az' = IF r.out.next_run
                     THEN [ reached |-> TRUE, user_info |-> user_info,
                            claims |-> IF user_info.auth_source = "auth0"
                                       THEN claims ELSE NoRoleClaims,
                            required |-> required, status |-> z.status,
                            next_run |-> z.next_run, error |-> z.error,
                            required_roles |-> z.required_roles ]
                     ELSE NoAuthorization
            /\ hc' = NoCallbackResult
            /\ UNCHANGED << now, ticks, cfg, rt, rf, last_call, pf, lk, fv, jw, minted, registryVars, oidcVars >>

-----------------------------------------------------------------------------
\* The token-refresh endpoint (auth/mod.rs).

NoRefresh ==
    [ status |-> 0, cred |-> "none", kind |-> "none", local |-> "none",
      revoked |-> FALSE, issued |-> FALSE ]

\* refresh_token: the Authorization header, validate_token on the bearer
\* token, and generate_token for the subject of the claims.  `kind` is the
\* TokenType the presented token was generated with; the Claims do not
\* carry it.
refresh_token(hdr, token, tokens, t, config) ==
    LET local == validate_token(token, tokens, t, config)
        seen == [ NoRefresh EXCEPT !.kind = IF token.sig = "local" THEN token.kind ELSE "none",
                                   !.revoked = (token.sig # "garbage"
                                                /\ is_revoked(tokens, token.sub)) ]
    IN  IF hdr # "bearer" THEN [ seen EXCEPT !.status = 401 ]
        ELSE IF local = "Ok"
        THEN [ seen EXCEPT !.status = 200, !.local = local, !.issued = TRUE ]
        ELSE [ seen EXCEPT !.status = 401, !.local = local ]

\* POST /auth/refresh, a public route
RefreshRequest ==
    \E c \in Credentials :
        LET r == refresh_token(c.hdr, c.token, revoked_tokens, now, cfg)
        IN  /\ rf' = [ r EXCEPT !.cred = presented(c) ]
            /\ minted' = IF r.issued
                         THEN minted \cup {LocalToken(c.token.sub, "Access", now)}
                         ELSE minted
            /\ UNCHANGED << now, ticks, cfg, az, rt, hc, last_call, pf, lk, fv, jwks_cache, jw, mw,
                            registryVars, oidcVars >>

-----------------------------------------------------------------------------
\* The session repository driven through its own API (oidc.rs, the
\* SessionRepository trait), as its tests drive it.

RepoKeys == 1..(NumFlows + 1)

NoSession == [id |-> 0, csrf_token |-> 0, pkce_verifier |-> 0, created_at |-> 0, nonce |-> 0]

NoCall == [ op |-> "none", key |-> 0, arg |-> NoSession, timeout |-> 0,
            pre |-> EmptyMap, at |-> 0, ret |-> [ok |-> FALSE, session |-> NoSession] ]

\* store_session(session): the id, verifier and nonce are fresh on every call
RepoStore(k, ago) ==
    /\ next_csrf <= MaxStores
    /\ LET session == [ id |-> next_csrf, csrf_token |-> k, pkce_verifier |-> next_csrf,
                         created_at |-> now - ago, nonce |-> next_csrf ]
       IN  /\ sessions' = store_session(sessions, session)
           /\ last_call' = [ NoCall EXCEPT !.op = "store", !.key = k, !.arg = session,
                                            !.pre = sessions, !.at = now ]
    /\ next_csrf' = next_csrf + 1
    /\ UNCHANGED << now, ticks, cfg, az, rt, hc, rf, pf, lk, fv, minted, jwks_cache, jw, mw, registryVars,
                    created, cb >>

\* get_session(csrf_token)
RepoGet(k) ==
    /\ last_call' = [ NoCall EXCEPT !.op = "get", !.key = k, !.pre = sessions, !.at = now,
                                    !.ret = get_session(sessions, k) ]
    /\ UNCHANGED << now, ticks, cfg, az, rt, hc, rf, pf, lk, fv, minted, jwks_cache, jw, mw, registryVars,
                    oidcVars >>

\* delete_session(csrf_token)
RepoDelete(k) ==
    /\ sessions' = delete_session(sessions, k)
    /\ last_call' = [ NoCall EXCEPT !.op = "delete", !.key = k, !.pre = sessions, !.at = now ]
    /\ UNCHANGED << now, ticks, cfg, az, rt, hc, rf, pf, lk, fv, minted, jwks_cache, jw, mw, registryVars,
                    next_csrf, created, cb >>

\* cleanup_expired_sessions(timeout)
RepoCleanup(timeout) ==
    /\ sessions' = cleanup_expired_sessions(sessions, timeout, now)
    /\ last_call' = [ NoCall EXCEPT !.op = "cleanup", !.timeout = timeout,
                                    !.pre = sessions, !.at = now ]
    /\ UNCHANGED << now, ticks, cfg, az, rt, hc, rf, pf, lk, fv, minted, jwks_cache, jw, mw, registryVars,
                    next_csrf, created, cb >>

-----------------------------------------------------------------------------
\* The display name of a federated user (oidc.rs, profile_to_user_info).
\* An Option<String> is a record; a string is a sequence of words and blanks.

None == [some |-> FALSE, v |-> << >>]
Some(v) == [some |-> TRUE, v |-> v]

\* a conversion that lets preferred_username win over the given and family names
profile_name_UsernameFirst(profile) ==
    IF profile.name.some THEN profile.name
    ELSE IF profile.preferred_username.some THEN profile.preferred_username
    ELSE IF profile.given_name.some /\ profile.family_name.some
         THEN Some(profile.given_name.v \o <<" ">> \o profile.family_name.v)
    ELSE IF profile.given_name.some THEN profile.given_name
    ELSE profile.family_name

\* profile_to_user_info: the name field,
\* profile.name.clone().or_else(|| match (given_name, family_name) { .. })
profile_name(profile) ==
    IF profile.name.some THEN profile.name
    ELSE IF profile.given_name.some /\ profile.family_name.some
         THEN Some(profile.given_name.v \o <<" ">> \o profile.family_name.v)
    ELSE IF profile.given_name.some THEN profile.given_name
    ELSE IF profile.family_name.some THEN profile.family_name
    ELSE profile.preferred_username

NoProfile ==
    [ profile |-> [name |-> None, given_name |-> None, family_name |-> None,
                   preferred_username |-> None],
      converted |-> FALSE, name |-> None ]

\* profile_to_user_info(profile)
ConvertProfile ==
    /\ ~pf.converted
    /\ pf' = [ pf EXCEPT !.converted = TRUE, !.name = profile_name(pf.profile) ]
    /\ UNCHANGED << now, ticks, cfg, az, rt, hc, rf, last_call, lk, fv, minted, jwks_cache, jw, mw,
                    registryVars, oidcVars >>

-----------------------------------------------------------------------------
\* The three stores and their mutexes: TokenBlacklist.revoked_tokens
\* (token_blacklist.rs), JwksCache.keys (auth0.rs) and
\* InMemorySessionRepository.sessions (oidc.rs).  Each critical section is two
\* steps, the lock() and then the body up to the drop of the guard; a request
\* to a provider is in flight while its task is at "fetch", "exchange" or
\* "userinfo".

LockNames == {"revoked_tokens", "keys", "sessions"}

NoTask == << "none", 0 >>

\* a task of the middleware, a task of the callback handler
Request(p) == << "request", p >>
Login(q) == << "login", q >>

\* the login flows the callback tasks complete, one each
Logins == 1..NumFlows

\* Mutex::lock returns when no task holds the mutex
lock(holder, l, task) == [holder EXCEPT ![l] = task]

\* the guard of the key cache lives on to the end of get_jwks
unlock_KeysHeldToReturn(holder, l, returns) ==
    IF l = "keys" /\ ~returns THEN holder ELSE [holder EXCEPT ![l] = NoTask]

\* the guard goes out of scope at the end of the block or of the function that
\* took it, whether the task returns there or goes on
unlock(holder, l, returns) == [holder EXCEPT ![l] = NoTask]

\* auth_middleware with a token of this service: validate_token decodes it and
\* asks the registry, is_token_revoked -> TokenBlacklist::is_revoked
RequestLockRegistry(p) ==
    /\ lk.request[p].pc = "idle"
    /\ lk.holder["revoked_tokens"] = NoTask
    /\ lk' = [ lk EXCEPT !.holder = lock(lk.holder, "revoked_tokens", Request(p)),
                         !.request[p].pc = "is_revoked" ]
    /\ UNCHANGED << now, ticks, cfg, az, rt, hc, rf, last_call, pf, fv, minted, jwks_cache, jw, mw,
                    registryVars, oidcVars >>

\* is_revoked: contains_key and the drop of the guard; the request is answered
RequestIsRevoked(p) ==
    /\ lk.request[p].pc = "is_revoked"
    /\ lk' = [ lk EXCEPT !.holder = unlock(lk.holder, "revoked_tokens", TRUE),
                         !.request[p].pc = "done",
                         !.request[p].result = "local" ]
    /\ UNCHANGED << now, ticks, cfg, az, rt, hc, rf, last_call, pf, fv, minted, jwks_cache, jw, mw,
                    registryVars, oidcVars >>

\* auth_middleware with a token of the provider: validate_auth0_token reaches
\* get_jwks(issuer), which locks the cache
RequestLockKeys(p, issuer) ==
    /\ lk.request[p].pc = "idle"
    /\ lk.holder["keys"] = NoTask
    /\ lk' = [ lk EXCEPT !.holder = lock(lk.holder, "keys", Request(p)),
                         !.request[p].pc = "cache_get",
                         !.request[p].issuer = issuer ]
    /\ UNCHANGED << now, ticks, cfg, az, rt, hc, rf, last_call, pf, fv, minted, jwks_cache, jw, mw,
                    registryVars, oidcVars >>

\* get_jwks: cache.get(issuer).cloned(), the drop of the guard and the match
RequestCacheGet(p) ==
    /\ lk.request[p].pc = "cache_get"
    /\ LET issuer == lk.request[p].issuer
           fresh == jwks_entry(jwks_cache, issuer, now) = "fresh"
       IN  lk' = [ lk EXCEPT !.holder = unlock(lk.holder, "keys", fresh),
                            !.request[p].pc = IF fresh THEN "done" ELSE "fetch",
                            !.request[p].keys =
                                IF fresh THEN jwks_cache[issuer].keys ELSE {},
                            !.request[p].result = IF fresh THEN "cached" ELSE "none" ]
    /\ UNCHANGED << now, ticks, cfg, az, rt, hc, rf, last_call, pf, fv, minted, jwks_cache, jw, mw,
                    registryVars, oidcVars >>

\* get_jwks: the key-set endpoint answers with an error and get_jwks returns
\* it; whatever guard the task holds is dropped with its frame
RequestFetchFailed(p) ==
    /\ lk.request[p].pc = "fetch"
    /\ lk' = [ lk EXCEPT !.holder = [l \in LockNames |->
                                       IF lk.holder[l] = Request(p) THEN NoTask
                                       ELSE lk.holder[l]],
                         !.request[p].pc = "done",
                         !.request[p].result = "error" ]
    /\ UNCHANGED << now, ticks, cfg, az, rt, hc, rf, last_call, pf, fv, minted, jwks_cache, jw, mw,
                    registryVars, oidcVars >>

\* get_jwks: the key-set endpoint answers with a key set and the task locks the
\* cache again
RequestFetched(p) ==
    /\ lk.request[p].pc = "fetch"
    /\ lk.holder["keys"] = NoTask
    /\ lk' = [ lk EXCEPT !.holder = lock(lk.holder, "keys", Request(p)),
                         !.request[p].pc = "cache_insert",
                         !.request[p].keys = ProviderKeys ]
    /\ UNCHANGED << now, ticks, cfg, az, rt, hc, rf, last_call, pf, fv, minted, jwks_cache, jw, mw,
                    registryVars, oidcVars >>

\* get_jwks: cache.insert(issuer, (jwks, now)), the drop of the guard, Ok(jwks)
RequestCacheInsert(p) ==
    /\ lk.request[p].pc = "cache_insert"
    /\ jwks_cache' = jwks_after_fetch(jwks_cache, lk.request[p].issuer, now,
                                      [ok |-> TRUE, keys |-> lk.request[p].keys])
    /\ lk' = [ lk EXCEPT !.holder = unlock(lk.holder, "keys", TRUE),
                         !.request[p].pc = "done",
                         !.request[p].result = "fetched" ]
    /\ UNCHANGED << now, ticks, cfg, az, rt, hc, rf, last_call, pf, fv, minted, jw, mw,
                    registryVars, oidcVars >>

\* start_auth_flow: store_session locks the store, inserts and returns
LoginStart ==
    /\ lk.holder["sessions"] = NoTask
    /\ StartAuthFlow

\* handle_callback(code, state) for the flow with CSRF state q: get_session
\* locks the store
LoginLockGet(q) ==
    /\ lk.login[q] = "idle"
    /\ lk.holder["sessions"] = NoTask
    /\ lk' = [ lk EXCEPT !.holder = lock(lk.holder, "sessions", Login(q)),
                         !.login[q] = "get_session" ]
    /\ UNCHANGED << now, ticks, cfg, az, rt, hc, rf, last_call, pf, fv, minted, jwks_cache, jw, mw,
                    registryVars, oidcVars >>

\* get_session: sessions.get(csrf_token).cloned(), the drop of the guard, and
\* the expiry check of handle_callback; then the code goes to the token endpoint
LoginGetSession(q) ==
    /\ lk.login[q] = "get_session"
    /\ LET proceeds == callback_lookup(sessions, q, now) = "proceed"
       IN  lk' = [ lk EXCEPT !.holder = unlock(lk.holder, "sessions", ~proceeds),
                            !.login[q] = IF proceeds THEN "exchange" ELSE "done" ]
    /\ UNCHANGED << now, ticks, cfg, az, rt, hc, rf, last_call, pf, fv, minted, jwks_cache, jw, mw,
                    registryVars, oidcVars >>

\* the token endpoint answers with an error, or with an ID token that fails a check
LoginExchangeFailed(q) ==
    /\ lk.login[q] = "exchange"
    /\ lk' = [ lk EXCEPT !.login[q] = "done" ]
    /\ UNCHANGED << now, ticks, cfg, az, rt, hc, rf, last_call, pf, fv, minted, jwks_cache, jw, mw,
                    registryVars, oidcVars >>

\* the token endpoint answers with a valid ID token and delete_session locks
\* the store
LoginExchanged(q) ==
    /\ lk.login[q] = "exchange"
    /\ lk.holder["sessions"] = NoTask
    /\ lk' = [ lk EXCEPT !.holder = lock(lk.holder, "sessions", Login(q)),
                         !.login[q] = "delete_session" ]
    /\ UNCHANGED << now, ticks, cfg, az, rt, hc, rf, last_call, pf, fv, minted, jwks_cache, jw, mw,
                    registryVars, oidcVars >>

\* delete_session: sessions.remove(csrf_token) and the drop of the guard; then
\* fetch_user_profile asks the userinfo endpoint
LoginDeleteSession(q) ==
    /\ lk.login[q] = "delete_session"
    /\ sessions' = delete_session(sessions, q)
    /\ lk' = [ lk EXCEPT !.holder = unlock(lk.holder, "sessions", FALSE),
                         !.login[q] = "userinfo" ]
    /\ UNCHANGED << now, ticks, cfg, az, rt, hc, rf, last_call, pf, fv, minted, jwks_cache, jw, mw,
                    registryVars, next_csrf, created, cb >>

\* the userinfo endpoint answers, with a profile or not, and handle_callback returns
LoginUserInfo(q) ==
    /\ lk.login[q] = "userinfo"
    /\ lk' = [ lk EXCEPT !.login[q] = "done" ]
    /\ UNCHANGED << now, ticks, cfg, az, rt, hc, rf, last_call, pf, fv, minted, jwks_cache, jw, mw,
                    registryVars, oidcVars >>

-----------------------------------------------------------------------------
\* The middleware before any request.

NoRequest ==
    [ bypass |-> FALSE, local |-> "none", auth0 |-> "none", fetched |-> FALSE,
      status |-> 0, next_run |-> FALSE, user_id |-> 0, source |-> "none",
      revoked |-> FALSE, cred |-> "none" ]

-----------------------------------------------------------------------------
\* The middleware seen with the token it was given (auth/mod.rs, auth0.rs):
\* what a request carried, what auth_middleware answered and what it left in
\* the request's extensions.

NoClaims == [ present |-> FALSE, sub |-> NoUser, iss |-> "", iat |-> 0, exp |-> 0 ]

\* only a token of this service leaves Claims behind
inserted_claims_LocalOnly(out, token, t) ==
    IF ~out.next_run \/ out.bypass \/ out.source # "jwt" THEN NoClaims
    ELSE [ present |-> TRUE, sub |-> token.sub, iss |-> token.iss,
           iat |-> token.iat, exp |-> token.exp ]

\* the Claims auth_middleware leaves in the request's extensions: none under
\* the bypass, the decoded claims of a token of this service, or the ones made
\* up for a token of the provider (sub of the UserInfo, iss "auth0", an hour)
inserted_claims(out, token, t) ==
    IF ~out.next_run \/ out.bypass THEN NoClaims
    ELSE IF out.source = "jwt"
    THEN [ present |-> TRUE, sub |-> token.sub, iss |-> token.iss,
           iat |-> token.iat, exp |-> token.exp ]
    ELSE [ present |-> TRUE, sub |-> out.user_id, iss |-> "auth0",
           iat |-> t, exp |-> t + 3600 ]

\* a request to a route behind auth_middleware.  Its credentials: no header,
\* a header that is not a Bearer one, or a Bearer token: one that is no JWT,
\* an Access token this service issued at start-up or just now, or a token of
\* a provider
ValidatedRequest ==
    \E c \in { [hdr |-> h, token |-> Garbage] : h \in HeaderKinds }
             \cup { [hdr |-> "bearer", token |-> t] :
                      t \in { LocalToken(u, "Access", at) : u \in Bearers, at \in {0, now} }
                            \cup ForeignTokens } :
      \E fetch \in FetchesFor(c) :
        LET r == auth_middleware(c.hdr, c.token, revoked_tokens, now, cfg, jwks_cache, fetch)
        IN  /\ jwks_cache' = r.cache
            /\ fv' = [ made |-> TRUE, hdr |-> c.hdr, token |-> c.token, out |-> r.out,
                       user_info |-> request_extensions(r.out, NoRoleClaims),
                       claims |-> inserted_claims(r.out, c.token, now) ]
            /\ UNCHANGED << now, ticks, cfg, az, rt, hc, rf, last_call, pf, lk, jw, mw, minted,
                            registryVars, oidcVars >>

-----------------------------------------------------------------------------
\* Initial states and specifications.

InitShared ==
    /\ now = 0
    /\ ticks = 0
    /\ revoked_tokens = EmptyMap
    /\ outstanding = {}
    /\ last_op = [ op |-> "none", id |-> 0, pre |-> EmptyMap, at |-> 0, ret |-> 0 ]
    /\ minted = {}
    /\ jwks_cache = EmptyMap
    /\ jw = [p \in Callers |->
                [ pc |-> "idle", issuer |-> "", entry |-> "none", result |-> "none",
                  keys |-> {}, fetched |-> FALSE ]]
    /\ mw = NoRequest
    /\ sessions = EmptyMap
    /\ next_csrf = 1
    /\ created = EmptyMap
    /\ cb = [p \in Callbacks |-> IdleCallback]
    /\ az = NoAuthorization
    /\ rt = [p \in Providers |->
                [ pc |-> "idle", attempt |-> 0, calls |-> 0, delays |-> << >>,
                  result |-> "none" ]]
    /\ hc = NoCallbackResult
    /\ rf = NoRefresh
    /\ last_call = NoCall
    /\ lk = [ holder |-> [l \in LockNames |-> NoTask],
              request |-> [p \in Callers |->
                             [ pc |-> "idle", issuer |-> "", keys |-> {}, result |-> "none" ]],
              login |-> [q \in Logins |-> "idle"] ]
    /\ fv = [ made |-> FALSE, hdr |-> "missing", token |-> Garbage, out |-> NoRequest,
              user_info |-> NoUserInfo, claims |-> NoClaims ]

InitBase == InitShared /\ pf = NoProfile

\* the application: the global registry built by TokenBlacklist::new()
Init ==
    /\ InitBase
    /\ cfg = ProdConfig
    /\ max_size = DefaultMaxSize

Next ==
    \/ Tick
    \/ \E s \in Users, k \in TokenKinds : GenerateToken(s, k)
    \/ \E s \in Users : RevokeToken(s)
    \/ CleanupExpiredTokens

Spec == Init /\ [][Next]_vars

\* the codec seen at the scale of seconds: tokens are minted, subjects are
\* revoked and the clock passes the expiry of an Access token
NextCodec ==
    \/ TickCodec
    \/ \E s \in Users, k \in TokenKinds : GenerateToken(s, k)
    \/ \E s \in Users : RevokeToken(s)

SpecCodec == Init /\ [][NextCodec]_vars

\* the clock around the TTL of the key cache: within it, or past it
TickJwks == Advance(TickSteps, MaxDays)

\* the key cache under concurrent callers, over the days
NextJwks ==
    \/ TickJwks
    \/ \E p \in Callers, i \in Issuers : GetJwksLookup(p, i)
    \/ \E p \in Callers : GetJwksFetch(p)

SpecJwks == Init /\ [][NextJwks]_vars

\* a registry of any capacity, TokenBlacklist::with_max_size(n)
InitBlacklist ==
    /\ InitBase
    /\ cfg = ProdConfig
    /\ max_size \in 1..MaxSizeBound

\* a TokenBlacklist built by with_max_size and driven through its own API:
\* revoke_token(token_id, expiration) with a caller-chosen expiration
NextBlacklist ==
    \/ Tick
    \/ \E id \in Subjects, off \in {-1, 300} : BlacklistRevoke(id, off)
    \/ CleanupExpiredTokens

SpecBlacklist == InitBlacklist /\ [][NextBlacklist]_vars

\* a small registry under token::revoke_token: the entries live for a day and
\* are revoked hours apart
NextEviction ==
    \/ Tick
    \/ \E user_id \in Subjects : RevokeToken(user_id)

SpecEviction == InitBlacklist /\ [][NextEviction]_vars

\* the application behind its middleware, under the environments it can be
\* started in
DevBypassConfig == [ProdConfig EXCEPT !.debug_assertions = TRUE, !.bypass_auth = TRUE]

\* a release build started with BYPASS_AUTH set
ReleaseFlagConfig == [ProdConfig EXCEPT !.bypass_auth = TRUE]

InitMiddleware ==
    /\ InitBase
    /\ cfg \in { ProdConfig, DevBypassConfig, ReleaseFlagConfig,
                  [ProdConfig EXCEPT !.auth0_domain = "", !.auth0_audience = ""],
                  [ProdConfig EXCEPT !.jwt_secret = FALSE] }
    /\ max_size = DefaultMaxSize

\* generate_token, for the bearer tokens presented to the middleware
GenerateBearer(user_id, kind) == Generate(user_id, kind, MaxBearerTokens)

NextMiddleware ==
    \/ TickDay
    \/ \E s \in Bearers, k \in TokenKinds : GenerateBearer(s, k)
    \/ ProtectedRequest
    \/ LogoutRequest

SpecMiddleware == InitMiddleware /\ [][NextMiddleware]_vars

\* the middleware under every deployment of the provider settings:
\* AUTH0_DOMAIN and AUTH0_AUDIENCE each set or not, and a development build
\* with the bypass
InitFederated ==
    /\ InitBase
    /\ cfg \in { [ProdConfig EXCEPT !.auth0_domain = d, !.auth0_audience = a] :
                    d \in {"", Auth0Domain}, a \in {"", Auth0Audience} }
                \cup {DevBypassConfig}
    /\ max_size = DefaultMaxSize

NextFederated ==
    \/ TickDay
    \/ \E s \in Bearers : RevokeToken(s)
    \/ ValidatedRequest

SpecFederated == InitFederated /\ [][NextFederated]_vars

\* the middleware of a release build, with and without BYPASS_AUTH in its
\* environment
InitAttached ==
    /\ InitBase
    /\ cfg \in {ProdConfig, ReleaseFlagConfig}
    /\ max_size = DefaultMaxSize

NextAttached ==
    \/ TickDay
    \/ \E s \in Bearers : RevokeToken(s)
    \/ ValidatedRequest

SpecAttached == InitAttached /\ [][NextAttached]_vars

\* the session tokens of a user: minted at login, revoked at logout, and
\* presented to the refresh endpoint over the days
NextRefresh ==
    \/ TickDay
    \/ \E s \in Bearers, k \in TokenKinds : GenerateBearer(s, k)
    \/ \E s \in Bearers : RevokeToken(s)
    \/ RefreshRequest

SpecRefresh == Init /\ [][NextRefresh]_vars

\* the admin routes: auth_middleware, then the authorization layer
NextAuthorize ==
    \/ TickDay
    \* the roles a route can require
    \/ \E required \in { {"admin"}, {"user"}, {"admin", "editor"} } :
          AuthorizedRequest(required)

\* a release build, or a development build started with BYPASS_AUTH
InitAuthorize ==
    /\ InitBase
    /\ cfg \in {ProdConfig, DevBypassConfig}
    /\ max_size = DefaultMaxSize

SpecAuthorize == InitAuthorize /\ [][NextAuthorize]_vars

\* start-up and the first federated token: create_app awaits the discovery
\* of each configured provider before the routes are served, and the first
\* request that carries a token of the provider then calls get_jwks, again
\* and again.  The runtime polls every pending task, requests are answered or
\* fail, and sleeps end.
DiscoveryDone == \A q \in Providers : rt[q].pc = "done"

NextDiscovery ==
    \/ \E p \in Providers, url_ok \in BOOLEAN : DiscoveryStart(p, url_ok)
    \/ \E p \in Providers : DiscoveryAttempt(p)
    \/ \E p \in Providers : DiscoverySleep(p)
    \/ \E p \in Providers : DiscoveryGiveUp(p)
    \/ \E p \in Callers, i \in Issuers :
          /\ DiscoveryDone
          /\ \A q \in Callers \ {p} : jw[q].pc = "idle"
          /\ GetJwksLookup(p, i)
    \/ \E p \in Callers : GetJwksFetch(p)

SpecDiscovery ==
    /\ Init
    /\ [][NextDiscovery]_vars
    /\ \A p \in Providers :
          WF_vars(DiscoveryAttempt(p) \/ DiscoverySleep(p) \/ DiscoveryGiveUp(p))
    /\ \A p \in Callers : WF_vars(GetJwksFetch(p))

\* federated logins: flows are started, the provider calls back, possibly
\* several times and concurrently, and the sweep runs at any time
InitOidc ==
    /\ InitBase
    /\ cfg = ProdConfig
    /\ max_size = DefaultMaxSize

NextOidc ==
    \/ TickSession
    \/ StartAuthFlow
    \/ \E p \in Callbacks, st \in States : CallbackLookup(p, st)
    \/ \E p \in Callbacks : CallbackExchange(p)
    \/ \E p \in Callbacks : CallbackUserInfo(p)
    \/ SweepSessions

SpecOidc == InitOidc /\ [][NextOidc]_vars

\* federated logins served one callback at a time, with the token response
\* and the ID token spelled out
NextCallback ==
    \/ TickSession
    \/ StartAuthFlow
    \/ \E st \in States : HandleCallback(st)

SpecCallback == InitOidc /\ [][NextCallback]_vars

\* the three ways to a UserInfo: a local token or a token of the provider
\* presented to the admin routes, and a federated login
NextIdentity ==
    \/ AuthorizedRequest({"admin"})
    \/ StartAuthFlow
    \/ \E st \in States : HandleCallback(st)

SpecIdentity == InitOidc /\ [][NextIdentity]_vars

\* the running application: create_app and OidcClient::new build the session
\* store and schedule nothing that calls cleanup_expired_sessions; the
\* runtime serves every pending request, and callbacks keep arriving
NextOidcApp ==
    \/ TickSession
    \/ StartAuthFlow
    \/ \E p \in Callbacks, st \in States : CallbackLookup(p, st)
    \/ \E p \in Callbacks : CallbackExchange(p)
    \/ \E p \in Callbacks : CallbackUserInfo(p)
    \/ \E p \in Callbacks : CallbackReturn(p)

SpecOidcApp == InitOidc /\ [][NextOidcApp]_vars /\ WF_vars(NextOidcApp)

\* the session repository alone: test_session_expiration stores a session
\* created eleven minutes ago, and cleanup_expired_sessions is handed a
\* timeout
NextSessionStore ==
    \/ TickSession
    \/ \E k \in RepoKeys, ago \in {0, 660} : RepoStore(k, ago)
    \/ \E k \in RepoKeys : RepoGet(k)
    \/ \E k \in RepoKeys : RepoDelete(k)
    \/ \E timeout \in {300, SessionTimeoutSecs} : RepoCleanup(timeout)

SpecSessionStore == InitOidc /\ [][NextSessionStore]_vars

\* profile_to_user_info over every profile
InitProfile ==
    /\ InitShared
    /\ cfg = ProdConfig
    /\ max_size = DefaultMaxSize
    \* the values a userinfo response may carry for each of the four claims
    /\ pf \in { [ NoProfile EXCEPT !.profile = profile ] :
                  profile \in
                    [ name : {None, Some(<< >>), Some(<<"Test", " ", "User">>)},
                      given_name : {None, Some(<< >>), Some(<<"Test">>)},
                      family_name : {None, Some(<< >>), Some(<<"User">>)},
                      preferred_username : {None, Some(<< >>), Some(<<"testuser">>)} ] }

NextProfile == ConvertProfile

SpecProfile == InitProfile /\ [][NextProfile]_vars

\* the tasks of the middleware and of the callback handler on the three stores
RequestStep(p) ==
    \/ RequestLockRegistry(p)
    \/ RequestIsRevoked(p)
    \/ \E issuer \in Issuers : RequestLockKeys(p, issuer)
    \/ RequestCacheGet(p)
    \/ RequestFetchFailed(p)
    \/ RequestFetched(p)
    \/ RequestCacheInsert(p)

LoginStep(q) ==
    \/ LoginLockGet(q)
    \/ LoginGetSession(q)
    \/ LoginExchangeFailed(q)
    \/ LoginExchanged(q)
    \/ LoginDeleteSession(q)
    \/ LoginUserInfo(q)

NextLocks ==
    \/ LoginStart
    \/ \E p \in Callers : RequestStep(p)
    \/ \E q \in Logins : LoginStep(q)

\* a task that can take a step is scheduled, and a request to a provider is
\* answered; no task starts over, so every run ends
SpecLocks == InitOidc /\ [][NextLocks]_vars /\ WF_vars(NextLocks)

-----------------------------------------------------------------------------
\* Claims about revocation.

\* C1: once revoke(s) was called, validate returns TokenRevoked for every
\* token of s that was minted before the revocation and has not reached its
\* own expiry, at every later time and after any other operations.
C1_RevokedStaysRevoked ==
    \A t \in outstanding :
        now < t.exp => validate_token(t, revoked_tokens, now, cfg) = "TokenRevoked"

\* C7: the natural expiry recorded by revoke(s) is no earlier than the expiry
\* of any Access or Refresh token of s minted before the revocation.
C7_EntryOutlivesTokens ==
    \A t \in outstanding :
        t.sub \in DOMAIN revoked_tokens =>
            revoked_tokens[t.sub].expiration >= t.exp

\* C8: the registry never holds more than max_size entries.
C8_RegistryBounded == Cardinality(DOMAIN revoked_tokens) <= max_size

\* C9: when revoke_token runs on a registry at capacity that holds an entry
\* whose natural expiry has passed, every entry it removes is an expired one.
C9_ExpiredGoFirst ==
    ( /\ last_op.op = "revoke"
      /\ Cardinality(DOMAIN last_op.pre) >= max_size
      /\ \E k \in DOMAIN last_op.pre : EntryExpired(last_op.pre[k], last_op.at) )
    => \A k \in (DOMAIN last_op.pre) \ (DOMAIN revoked_tokens) :
           EntryExpired(last_op.pre[k], last_op.at)

\* a revoke at capacity that purged an expired entry and kept an unexpired one
C9_Witness ==
    /\ last_op.op = "revoke"
    /\ Cardinality(DOMAIN last_op.pre) >= max_size
    /\ \E k \in (DOMAIN last_op.pre) \ (DOMAIN revoked_tokens) :
           EntryExpired(last_op.pre[k], last_op.at)
    /\ \E k \in (DOMAIN last_op.pre) \ {last_op.id} :
           /\ ~EntryExpired(last_op.pre[k], last_op.at)
           /\ k \in DOMAIN revoked_tokens

-----------------------------------------------------------------------------
\* Claims about the authentication middleware.

\* C6: the registry is consulted on every token validation: the middleware
\* authenticates no request whose bearer token names a subject that the
\* registry holds as revoked, on the local path or on the federated path.
C6_RevokedNeverAuthenticated ==
    cfg.jwt_secret => ~(mw.next_run /\ mw.user_id # NoUser /\ mw.revoked)

\* C10: when local validation returns TokenExpired or TokenRevoked the
\* middleware answers 401 at once: the federated path is not attempted, no
\* key set is fetched and the next handler is not invoked.
C10_StaleLocalTokenRejectedAtOnce ==
    mw.local \in {"TokenExpired", "TokenRevoked"} =>
        /\ mw.status = 401
        /\ mw.auth0 = "none"
        /\ ~mw.fetched
        /\ ~mw.next_run

C10_Witness ==
    /\ mw.local = "TokenRevoked"
    /\ mw.status = 401
    /\ mw.revoked

\* C20 as stated: a request whose bearer credential is not a structurally
\* valid token is answered 401 without a key-set fetch and without the next
\* handler being invoked.
C20_GarbageRejected ==
    mw.cred = "garbage" =>
        /\ mw.status = 401
        /\ ~mw.fetched
        /\ ~mw.next_run

\* C20 as amended: the same, unless the development bypass is active (a debug
\* build with BYPASS_AUTH set), where the request goes to the next handler
\* with no user attached; no key set is fetched in either case.
C20_GarbageRejectedUnlessBypass ==
    mw.cred = "garbage" =>
        /\ ~mw.fetched
        /\ IF mw.bypass
           THEN mw.next_run /\ mw.user_id = NoUser
           ELSE /\ mw.status = 401
                /\ ~mw.next_run
                /\ mw.auth0 \in {"InvalidFormat", "MalformedToken"}

\* garbage was refused on the federated path before any key set was needed
C20_Witness ==
    /\ mw.cred = "garbage"
    /\ ~mw.bypass
    /\ mw.status = 401
    /\ mw.auth0 = "InvalidFormat"

-----------------------------------------------------------------------------
\* Claims about the session-token codec.

\* C11 as stated: validate_token returns exactly one of Ok, InvalidToken,
\* TokenExpired, TokenRevoked for every input and in every state, a missing
\* signing secret, a bad signature and a wrong issuer included.
C11_FourOutcomes ==
    mw.local # "none" =>
        mw.local \in {"Ok", "InvalidToken", "TokenExpired", "TokenRevoked"}

\* C11 as amended: validate_token returns exactly one of Ok, InvalidToken,
\* TokenExpired, TokenRevoked, TokenValidation (bad signature, wrong issuer)
\* and ConfigError (no signing secret); ConfigError exactly when the secret is
\* missing.
C11_SixOutcomes ==
    mw.local # "none" =>
        /\ mw.local \in {"Ok", "InvalidToken", "TokenExpired", "TokenRevoked",
                         "TokenValidation", "ConfigError"}
        /\ (mw.local = "ConfigError") <=> ~cfg.jwt_secret

\* a token signed with the secret under another issuer was refused as
\* TokenValidation
C11_Witness ==
    /\ mw.cred = "local"
    /\ mw.local = "TokenValidation"
    /\ mw.status = 401

\* C12: validating an Access token immediately after minting it for s returns
\* Ok with the claims of the token (sub = s, iss = the configured issuer),
\* for every subject s and in every state.
C12_MintValidateRoundTrip ==
    [][ \A t \in minted' \ minted :
            t.kind = "Access" =>
                /\ validate_token(t, revoked_tokens', now', cfg') = "Ok"
                /\ t.iss = JwtIssuer ]_vars

\* C13: a correctly signed token whose expiry is any past instant, be it one
\* second ago, is refused with TokenExpired.
C13_PastExpiryRejected ==
    \A t \in minted :
        t.exp < now => validate_token(t, revoked_tokens, now, cfg) = "TokenExpired"

\* C14: a token minted for s after revoke(s) is accepted by validate, while
\* the tokens of s that were outstanding at the revocation stay TokenRevoked.
C14_RevocationUntilNewToken ==
    \A t \in minted :
        now <= t.exp =>
            validate_token(t, revoked_tokens, now, cfg) =
                IF t \in outstanding THEN "TokenRevoked" ELSE "Ok"

-----------------------------------------------------------------------------
\* Claims about the identity-provider key cache.

\* C15: when the cached key set of an issuer is older than the TTL and the
\* refresh fetch fails, get_jwks returns the stale key set; it fails only
\* when the fetch fails and the cache holds no entry for the issuer.
C15_StaleServedOnFetchFailure ==
    \A p \in Callers :
        (jw[p].pc = "done" /\ jw[p].result = "error") => jw[p].entry = "absent"

\* C16: a cached key set younger than the TTL is returned without a fetch; a
\* failed fetch, for any issuer and in any interleaving, removes and changes
\* no cache entry; a successful fetch stores (keys, now) for its issuer only.
C16_CacheThenRefresh ==
    [][ /\ \A p \in Callers :
              (jw'[p] # jw[p] /\ jw'[p].entry = "fresh") =>
                  /\ jw'[p].result = "cached" /\ ~jw'[p].fetched
                  /\ jw'[p].keys = jwks_cache[jw'[p].issuer].keys
                  /\ jwks_cache' = jwks_cache
        /\ DOMAIN jwks_cache \subseteq DOMAIN jwks_cache'
        /\ \A i \in DOMAIN jwks_cache' :
              (i \notin DOMAIN jwks_cache \/ jwks_cache'[i] # jwks_cache[i]) =>
                  \E p \in Callers :
                      /\ jw[p].pc = "fetch" /\ jw[p].issuer = i
                      /\ jw'[p].result = "fetched"
                      /\ jwks_cache'[i] = [keys |-> jw'[p].keys, timestamp |-> now]
        /\ \A p \in Callers :
              (jw[p].pc = "fetch" /\ jw'[p].result = "error") =>
                  jwks_cache' = jwks_cache ]_vars

\* a fresh entry was served from the cache while a failed refresh of a stale
\* entry left that entry in place
C16_Witness ==
    \E p, q \in Callers :
        /\ jw[p].result = "error" /\ jw[p].entry = "stale"
        /\ jw[p].issuer \in DOMAIN jwks_cache
        /\ jw[q].result = "cached" /\ jw[q].entry = "fresh"

-----------------------------------------------------------------------------
\* Claims about the sweeps.

\* C17: for the revocation registry and for the session store alike, a lookup
\* gives the same outcome whether or not the sweep ran just before it: a
\* record past its expiry is treated by its consumer as the sweep would have
\* left it.
C17_SweepTransparent ==
    /\ \A t \in minted :
          validate_token(t, revoked_tokens, now, cfg) =
              validate_token(t, cleanup_expired_tokens_internal(revoked_tokens, now),
                             now, cfg)
    /\ \A id \in Users :
          is_revoked(revoked_tokens, id) =
              is_revoked(cleanup_expired_tokens_internal(revoked_tokens, now), id)
    /\ \A st \in States :
          callback_lookup(sessions, st, now) =
              callback_lookup(cleanup_expired_sessions(sessions, SessionTimeoutSecs, now),
                              st, now)

\* C18: in the running application every session that has outlived
\* session_timeout, its callback never arrived or found it expired, is
\* eventually deleted from the session store.
C18_AbandonedFlowsSwept ==
    \A st \in 1..NumFlows :
        ( /\ st \in DOMAIN sessions
          /\ session_expired(sessions[st].created_at, now, SessionTimeoutSecs) )
        ~> (st \notin DOMAIN sessions)

-----------------------------------------------------------------------------
\* Claims about the federated-login session.

\* C2: of the handle_callback invocations that carry the same CSRF state, at
\* most one obtains the session and proceeds to the code exchange.
C2_AtMostOneConsumer ==
    \A p, q \in Callbacks :
        (p # q /\ cb[p].got /\ cb[q].got) => cb[p].state # cb[q].state

\* C3: looking a session up twice by the same CSRF state returns the session
\* once; the second lookup finds nothing.
C3_SessionSingleUse ==
    \A st \in States :
        Cardinality({p \in Callbacks : cb[p].state = st /\ cb[p].present}) <= 1

\* C4: once a callback found the session and then failed at the code exchange
\* or at ID-token validation, a later callback with the same state does not
\* find the session.
C4_FailedCallbackConsumes ==
    \A p \in Callbacks : cb[p].after_fail => ~cb[p].present

\* C5: a callback whose session was created more than session_timeout ago
\* ends with SessionNotFound and never reaches the code exchange, swept or
\* not; a stored session aged at most session_timeout is accepted.
C5_ExpiredSessionRejected ==
    \A p \in Callbacks :
        /\ cb[p].age > SessionTimeoutSecs =>
              (cb[p].result = "SessionNotFound" /\ ~cb[p].got)
        /\ (cb[p].present /\ cb[p].age >= 0 /\ cb[p].age <= SessionTimeoutSecs) =>
              cb[p].got

\* an expired record that was still in the store was refused, and a record
\* aged exactly session_timeout was accepted
C5_Witness ==
    /\ \E p \in Callbacks :
          cb[p].present /\ cb[p].age > SessionTimeoutSecs /\ cb[p].result = "SessionNotFound"
    /\ \E p \in Callbacks :
          cb[p].present /\ cb[p].age = SessionTimeoutSecs /\ cb[p].got

-----------------------------------------------------------------------------
\* Claims about roles and authorization.

\* C21: with a UserInfo attached, require_roles runs the next handler exactly
\* when the UserInfo's roles and the required roles have a role in common;
\* otherwise the answer is 403, the body lists the required roles, and the
\* next handler is not run.
C21_AuthorizationDecision ==
    (az.reached /\ az.user_info.present) =>
        /\ az.next_run <=> (az.user_info.roles \cap az.required # {})
        /\ ~az.next_run =>
              (az.status = 403 /\ az.error = "forbidden" /\ az.required_roles = az.required)

\* scenario D: roles {"user"}, the route requires "admin": 403 listing ["admin"]
C21_Witness ==
    /\ az.reached /\ az.user_info.present
    /\ az.user_info.roles = {"user"} /\ az.required = {"admin"}
    /\ az.status = 403 /\ az.required_roles = {"admin"} /\ ~az.next_run

\* C22: a request that reaches the authorization layer without a UserInfo is
\* answered 500, not 403, and the next handler is not run.
C22_MissingIdentityIsInternalError ==
    (az.reached /\ ~az.user_info.present) =>
        (az.status = 500 /\ az.status # 403 /\ ~az.next_run)

C22_Witness ==
    az.reached /\ ~az.user_info.present /\ az.status = 500 /\ mw.bypass

\* C23: in a release build (debug assertions off) a request reaches the next
\* handler only after validate_token or validate_auth0_token accepted its
\* token, whether BYPASS_AUTH is set or not.
C23_NoBypassInRelease ==
    (~cfg.debug_assertions /\ mw.next_run) =>
        (~mw.bypass /\ (mw.local = "Ok" \/ mw.auth0 = "Ok"))

\* a release build started with BYPASS_AUTH turned a request without a
\* valid token away
C23_Witness ==
    /\ ~cfg.debug_assertions /\ cfg.bypass_auth
    /\ mw.status = 401 /\ ~mw.next_run /\ mw.cred \in {"missing", "garbage"}

-----------------------------------------------------------------------------
\* Claims about termination.

\* C24: provider discovery makes at most MaxRetries requests, its success is
\* its last request, it ends otherwise with DiscoveryError, and each delay is
\* twice the one before; a call of get_jwks that has made its request makes
\* no other; and both come to an end.
C24_BoundedRetry ==
    /\ [](\A p \in Providers :
            /\ rt[p].calls <= MaxRetries
            /\ rt[p].result = "Ok" =>
                  (rt[p].pc = "done" /\ rt[p].calls = Len(rt[p].delays) + 1)
            /\ (rt[p].pc = "done" /\ rt[p].result # "Ok") =>
                  (rt[p].result = "DiscoveryError" /\ rt[p].calls \in {0, MaxRetries})
            /\ \A i \in 2..Len(rt[p].delays) :
                  rt[p].delays[i] = 2 * rt[p].delays[i - 1])
    /\ [][\A p \in Callers : (jw[p].fetched /\ jw'[p] # jw[p]) => ~jw'[p].fetched]_vars
    /\ \A p \in Providers : (rt[p].pc \in {"loop", "sleep"}) ~> (rt[p].pc = "done")
    /\ \A p \in Callers : (jw[p].pc = "fetch") ~> (jw[p].pc = "done")

\* three failed requests, delays of 200, 400 and 800 ms, then DiscoveryError
C24_Witness ==
    \E p \in Providers :
        /\ rt[p].pc = "done" /\ rt[p].result = "DiscoveryError"
        /\ rt[p].calls = MaxRetries /\ rt[p].delays = << 200, 400, 800 >>

-----------------------------------------------------------------------------
\* Claims about the token response of a federated login.

\* C25: when the code exchange succeeded and the ID token passed every
\* check, handle_callback returns a UserInfo whether the userinfo request
\* succeeded or not; when it failed, the UserInfo is built from the claims of
\* the ID token.
C25_ProfileBestEffort ==
    LET k == hc.response.id_token
    IN  ( /\ hc.lookup = "proceed" /\ hc.response.ok /\ hc.response.has_id_token
          /\ k.sig_ok /\ k.iss = OidcIssuer /\ k.aud = {OidcClientId}
          /\ k.azp \in {"none", OidcClientId} /\ k.exp > hc.at /\ k.nonce = hc.nonce )
        => /\ hc.result = "Ok" /\ hc.user_info.present
           /\ ~hc.profile_ok => hc.user_info.user_id = k.sub

\* the userinfo request failed and the login succeeded all the same
C25_Witness ==
    hc.lookup = "proceed" /\ ~hc.profile_ok /\ hc.result = "Ok" /\ hc.status = 200
    /\ hc.user_info.present /\ hc.user_info.user_id = hc.response.id_token.sub

\* C26: a callback returns a UserInfo, and session tokens are issued, only
\* if the ID token's issuer is the configured one, its audience and its
\* authorized party (when it names one) are the client id, its expiry lies
\* ahead and its nonce is the one of the session; a token response whose ID
\* token departs from this ends in TokenVerificationError.
C26_IdTokenChecked ==
    LET k == hc.response.id_token
        matches == /\ k.iss = OidcIssuer /\ k.aud = {OidcClientId}
                   /\ k.azp \in {"none", OidcClientId}
                   /\ k.exp > hc.at /\ k.nonce = hc.nonce
    IN  /\ (hc.user_info.present \/ hc.tokens) => (hc.response.has_id_token /\ matches)
        /\ (hc.lookup = "proceed" /\ hc.response.ok /\ hc.response.has_id_token /\ ~matches)
             => (hc.result = "TokenVerificationError" /\ hc.status = 400)

\* an ID token right in everything but its nonce was refused
C26_Witness ==
    LET k == hc.response.id_token
    IN  /\ hc.lookup = "proceed" /\ hc.response.has_id_token /\ k.sig_ok
        /\ k.iss = OidcIssuer /\ k.aud = {OidcClientId} /\ k.azp = OidcClientId
        /\ k.exp > hc.at /\ k.nonce # hc.nonce
        /\ hc.result = "TokenVerificationError" /\ ~hc.user_info.present /\ ~hc.tokens

-----------------------------------------------------------------------------
\* Claims about revoking at capacity.

C30_FullRegistryStaysFull ==
    ( /\ last_op.op = "revoke"
      /\ last_op.id \notin DOMAIN last_op.pre
      /\ Cardinality(DOMAIN last_op.pre) = max_size
      /\ \A k \in DOMAIN last_op.pre : ~EntryExpired(last_op.pre[k], last_op.at) )
    => /\ Cardinality(DOMAIN revoked_tokens) = max_size
       /\ last_op.id \in DOMAIN revoked_tokens
       /\ \E k \in (DOMAIN last_op.pre) \ (DOMAIN revoked_tokens) :
             \A j \in DOMAIN last_op.pre :
                 last_op.pre[k].revocation_time <= last_op.pre[j].revocation_time

-----------------------------------------------------------------------------
\* Claims about the refresh endpoint.

\* C29: the refresh endpoint issues an access token only for a bearer token
\* that was generated as a Refresh token, validates, and whose subject has no
\* revocation entry.
C29_RefreshNeedsRefreshToken ==
    rf.issued => (rf.kind = "Refresh" /\ rf.local = "Ok" /\ ~rf.revoked)

-----------------------------------------------------------------------------
\* Claims about the roles of an identity.

\* C28: every UserInfo that authentication produces holds the role "user":
\* the one of the local path, the one of the federated token path, whatever
\* its role claims, and the one of a federated login; and the roles of a
\* federated token are those of its `roles` claim, of the arrays under its
\* custom claims that name roles, of its permissions and of its role-like
\* scopes, together with "user".
C28_UserRoleAlways ==
    LET cc == az.claims.custom_claims
    IN  /\ az.user_info.present => "user" \in az.user_info.roles
        /\ hc.user_info.present => "user" \in hc.user_info.roles
        /\ az.user_info.auth_source = "auth0" =>
              az.user_info.roles =
                  az.claims.roles
                  \cup UNION { cc[k].items : k \in { k \in DOMAIN cc : KeyNamesRoles(k) } }
                  \cup az.claims.permissions
                  \cup { s \in az.claims.scope : ScopeNamesRole(s) }
                  \cup {"user"}

\* a token of the provider with roles from each of the four places
C28_Witness ==
    /\ az.user_info.auth_source = "auth0"
    /\ az.claims.roles = {"admin"}
    /\ az.user_info.roles = {"admin", "editor", "read:reports", "role:auditor", "user"}

\* C31: the registry sweep removes exactly the entries whose expiration is not
\* after the time of the sweep, returns how many they were, and leaves every
\* other entry as it was; afterwards is_revoked is false for each removed id
\* and true for each id whose entry had not expired.
C31_SweepRemovesExactlyExpired ==
    last_op.op = "cleanup" =>
        /\ \A k \in DOMAIN last_op.pre :
              IF EntryExpired(last_op.pre[k], last_op.at)
              THEN ~is_revoked(revoked_tokens, k)
              ELSE /\ is_revoked(revoked_tokens, k)
                   /\ revoked_tokens[k] = last_op.pre[k]
        /\ DOMAIN revoked_tokens \subseteq DOMAIN last_op.pre
        /\ last_op.ret = Cardinality({k \in DOMAIN last_op.pre :
                                        EntryExpired(last_op.pre[k], last_op.at)})

\* a sweep that found an expired entry beside an unexpired one
C31_Witness ==
    /\ last_op.op = "cleanup"
    /\ last_op.ret = 1
    /\ \E k \in DOMAIN last_op.pre : ~is_revoked(revoked_tokens, k)
    /\ \E k \in DOMAIN last_op.pre : is_revoked(revoked_tokens, k)

\* C32: a session sweep with a given timeout removes exactly the sessions whose
\* age exceeds the timeout; every other session stays retrievable, unchanged,
\* under its CSRF state.
C32_SweepRemovesExactlyOld ==
    last_call.op = "cleanup" =>
        \A k \in RepoKeys :
            IF k \in DOMAIN last_call.pre
               /\ last_call.at - last_call.pre[k].created_at > last_call.timeout
            THEN ~get_session(sessions, k).ok
            ELSE get_session(sessions, k) = get_session(last_call.pre, k)

\* a sweep that removed an old session and kept a younger one
C32_Witness ==
    /\ last_call.op = "cleanup"
    /\ \E k \in DOMAIN last_call.pre : k \notin DOMAIN sessions
    /\ \E k \in DOMAIN last_call.pre :
          /\ k \in DOMAIN sessions
          /\ last_call.at - last_call.pre[k].created_at > 0

\* C33: the session store round trip.  After store_session(x), get_session
\* under x's CSRF state returns a record equal to x; after delete_session(k),
\* get_session(k) returns SessionNotFound; neither call changes what is stored
\* under any other CSRF state.
C33_StoreRoundTrip ==
    /\ last_call.op = "store" =>
          /\ get_session(sessions, last_call.arg.csrf_token)
                 = [ok |-> TRUE, session |-> last_call.arg]
          /\ \A k \in RepoKeys \ {last_call.arg.csrf_token} :
                 get_session(sessions, k) = get_session(last_call.pre, k)
    /\ last_call.op = "delete" =>
          /\ ~get_session(sessions, last_call.key).ok
          /\ \A k \in RepoKeys \ {last_call.key} :
                 get_session(sessions, k) = get_session(last_call.pre, k)
    /\ last_call.op = "get" =>
          /\ sessions = last_call.pre
          /\ last_call.ret = get_session(sessions, last_call.key)

\* two sessions were stored and one of them was deleted beside the other
C33_Witness ==
    /\ last_call.op = "delete"
    /\ last_call.key \in DOMAIN last_call.pre
    /\ sessions # EmptyMap

\* C34: the display name of a converted profile is the name claim when it is
\* present; otherwise the given and family names joined by a blank when both
\* are present, the given name alone, the family name alone, or the preferred
\* username, in that order; it is absent only when all four are absent.
C34_DisplayNameResolution ==
    pf.converted =>
        LET p == pf.profile
        IN  /\ p.name.some => pf.name = p.name
            /\ (~p.name.some /\ p.given_name.some /\ p.family_name.some) =>
                   pf.name = Some(p.given_name.v \o <<" ">> \o p.family_name.v)
            /\ (~p.name.some /\ p.given_name.some /\ ~p.family_name.some) =>
                   pf.name = p.given_name
            /\ (~p.name.some /\ ~p.given_name.some /\ p.family_name.some) =>
                   pf.name = p.family_name
            /\ (~p.name.some /\ ~p.given_name.some /\ ~p.family_name.some) =>
                   pf.name = p.preferred_username
            /\ ~pf.name.some <=>
                   (~p.name.some /\ ~p.given_name.some /\ ~p.family_name.some
                      /\ ~p.preferred_username.some)

\* a profile without a name claim, whose given and family names were joined
\* although it carries a preferred username
C34_Witness ==
    /\ pf.converted
    /\ ~pf.profile.name.some
    /\ pf.profile.preferred_username.some
    /\ pf.name = Some(<<"Test", " ", "User">>)

\* C35: no store lock is held across I/O.  A task with a key-set fetch, a code
\* exchange or a userinfo request in flight holds none of the three mutexes;
\* while a fetch is in flight the key cache's mutex is free or held by a task
\* inside a critical section, so no get_jwks waits for the fetch; and two
\* fetches in flight for the same issuer both return, leaving an entry for the
\* issuer in the cache when either succeeded.
C35_NoLockAcrossIO ==
    /\ [](\A l \in LockNames :
            /\ \A p \in Callers :
                  lk.request[p].pc = "fetch" => lk.holder[l] # Request(p)
            /\ \A q \in Logins :
                  lk.login[q] \in {"exchange", "userinfo"} => lk.holder[l] # Login(q))
    /\ [](\A p \in Callers :
            (lk.request[p].pc = "fetch" /\ lk.holder["keys"] # NoTask) =>
               \E q \in Callers :
                   /\ lk.holder["keys"] = Request(q)
                   /\ lk.request[q].pc \in {"cache_get", "cache_insert"})
    /\ [](\A p \in Callers :
            (lk.request[p].pc = "done" /\ lk.request[p].result = "fetched") =>
               lk.request[p].issuer \in DOMAIN jwks_cache)
    /\ \A p \in Callers : (lk.request[p].pc = "fetch") ~> (lk.request[p].pc = "done")

\* two fetches for one issuer overlapped, one has stored its key set and the
\* other is about to, while a login has its code exchange in flight
C35_Witness ==
    \E p \in Callers, q \in Callers, r \in Logins :
        /\ lk.request[p].pc = "done" /\ lk.request[p].result = "fetched"
        /\ lk.request[q].pc = "cache_insert"
        /\ lk.request[q].issuer = lk.request[p].issuer
        /\ lk.login[r] = "exchange"

\* C36: the causal order within one login flow.  A callback that went on to
\* the code exchange for a state had, at its lookup, found the session that
\* start_auth_flow had created for that state, aged at most session_timeout;
\* no callback goes on to the exchange for a state that was never issued,
\* whose session is not in the store, or whose session has expired.
C36_ExchangeAfterLookup ==
    \A p \in Callbacks :
        /\ cb[p].got =>
              /\ cb[p].state \in DOMAIN created
              /\ cb[p].present
              /\ cb[p].age >= 0 /\ cb[p].age <= SessionTimeoutSecs
        /\ cb[p].pc \in {"exchange", "userinfo"} => cb[p].got

\* a callback is at the code exchange for a session it found at the last
\* second of its life, after another callback was refused
C36_Witness ==
    /\ \E p \in Callbacks :
          /\ cb[p].pc = "exchange"
          /\ cb[p].age = SessionTimeoutSecs
    /\ \E p \in Callbacks : cb[p].pc = "done" /\ ~cb[p].got

C38_FailsClosedOnConfiguration ==
    fv.out.auth0 = "Ok" =>
        /\ IssuerContains(fv.token.iss, Auth0Domain)
        /\ Auth0Audience \in fv.token.aud

\* C39: in a build without the development bypass the middleware runs the
\* next handler only after a successful local or federated validation, and
\* then with a UserInfo and Claims in the request's extensions whose subject
\* is the subject of the validated token; every rejection is a 401 and the
\* next handler is not run.
C39_NextOnlyWithIdentity ==
    (fv.made /\ ~(cfg.debug_assertions /\ cfg.bypass_auth)) =>
        /\ fv.out.next_run =>
              /\ fv.out.local = "Ok" \/ fv.out.auth0 = "Ok"
              /\ fv.out.status = 200
              /\ fv.user_info.present /\ fv.user_info.user_id = fv.token.sub
              /\ fv.claims.present /\ fv.claims.sub = fv.token.sub
        /\ ~fv.out.next_run =>
              /\ fv.out.status = 401
              /\ ~fv.user_info.present /\ ~fv.claims.present
              /\ fv.out.local # "Ok" /\ fv.out.auth0 # "Ok"

\* a token of the provider was accepted in a release build that has
\* BYPASS_AUTH in its environment, after the local validation refused it
C39_Witness ==
    /\ fv.made /\ cfg.bypass_auth /\ ~cfg.debug_assertions
    /\ fv.out.next_run /\ fv.out.auth0 = "Ok" /\ fv.out.local # "Ok"
    /\ fv.claims.iss = "auth0" /\ fv.claims.sub = fv.token.sub

\* C40: the UserInfo returned by a successful callback carries the subject of
\* the ID token that was validated for the flow, whether it was built from the
\* userinfo response or from the claims of the ID token.
C40_SubjectOfIdToken ==
    hc.result = "Ok" => hc.user_info.user_id = hc.response.id_token.sub

====
